---- MODULE Spec2Model ----
(***************************************************************************)
(* State-machine model of the glfwquad graphics layer: the GlCache state   *)
(* cache, the Buffer operations, the frame operations of GraphicsContext   *)
(* and the driver (OpenGL) state they act on.                              *)
(*                                                                         *)
(* The driver is modelled by the record `gl` (its bindings, capabilities   *)
(* and vertex attribute arrays) and by `calls`, the driver calls the last  *)
(* operation issued, in order.                                             *)
(***************************************************************************)
EXTENDS Integers, Sequences, FiniteSets, TLC

VARIABLES
    cache,      \* GraphicsContext.cache : GlCache
    gl,         \* the driver's state
    calls,      \* driver calls issued by the last operation
    fatal,      \* TRUE once an operation has panicked
    last,       \* the last operation and its arguments
    repeat,     \* the last operation repeats the one before it, argument for argument
    mon,        \* progress of a store / bind / restore sequence on one target
    features,   \* GraphicsContext.features
    window,     \* GraphicsContext.window : None until create_context sets it
    default_framebuffer,    \* GraphicsContext.default_framebuffer
    shaders,    \* GraphicsContext.shaders : Vec<ShaderInternal>
    pipelines,  \* GraphicsContext.pipelines : Vec<PipelineInternal>
    passes,     \* GraphicsContext.passes : Vec<RenderPassInternal>
    buffers,    \* the Buffer values the caller holds, in creation order
    query,      \* the ElapsedQuery the caller holds
    ref         \* the driver's vertex attribute arrays under an executor with no cache

arenas ==
    <<features, window, default_framebuffer, shaders, pipelines, passes, buffers, query>>
context == <<arenas, ref>>
vars == <<cache, gl, calls, fatal, last, repeat, mon, context>>

\* ------------------------------------------------------------------ bounds
\* driver buffer ids the raw GlCache operations are called with: 0..MaxBuf
MaxBuf == 2
\* driver texture ids: 0..MaxTex
MaxTex == 2
\* texture slots the raw GlCache operations are called with: 0..MaxSlot-1
MaxSlot == 2
\* how many of the index element types the raw GlCache operations are called with
MaxIdxTypes == 1

\* -------------------------------------------------------- program constants
MAX_VERTEX_ATTRIBUTES == 16
MAX_SHADERSTAGE_IMAGES == 12

\* Option<T>: None is the empty tuple, Some(x) the one-element tuple
None == << >>
Some(x) == <<x>>
IsSome(o) == o # << >>
Unwrap(o) == o[1]

GL_ARRAY_BUFFER == "GL_ARRAY_BUFFER"
GL_ELEMENT_ARRAY_BUFFER == "GL_ELEMENT_ARRAY_BUFFER"
BufferTargets == {GL_ARRAY_BUFFER, GL_ELEMENT_ARRAY_BUFFER}

\* enum IndexType, and Option<IndexType>
IndexType == {"Byte", "Short", "Int"}
OptIndexType == {None} \cup {Some(t) : t \in IndexType}

\* the index element types bind_buffer is called with, None among them
IndexTypeOrder == <<"Short", "Int", "Byte">>
CallIndexTypes ==
    {None} \cup {Some(IndexTypeOrder[i]) : i \in 1..(IF MaxIdxTypes < 3 THEN MaxIdxTypes ELSE 3)}

BufIds == 0..MaxBuf
TexIds == 0..MaxTex
Slots == 0..(MaxSlot - 1)

\* ---------------------------------------------------------------- driver
\* A generic vertex attribute array of the driver, as a fresh context has it.
GlAttribInit ==
    [ enabled |-> FALSE, size |-> 4, type |-> "GL_FLOAT", stride |-> 0, offset |-> 0,
      divisor |-> 0, buffer |-> 0 ]

\* ElapsedQuery::new()
ElapsedQueryNew == [gl_query |-> 0]

\* The driver state a fresh context has.
GlInit ==
    [ array_buffer         |-> 0,
      element_array_buffer |-> 0,
      active_texture       |-> 0,
      textures             |-> [u \in 0..(MAX_SHADERSTAGE_IMAGES - 1) |-> 0],
      framebuffer          |-> 0,
      program              |-> 0,
      caps                 |-> {},
      depth_func           |-> "GL_LESS",
      front_face           |-> "GL_CCW",
      cull_face            |-> "GL_BACK",
      blend                |-> None,
      stencil              |-> None,
      color_mask           |-> <<TRUE, TRUE, TRUE, TRUE>>,
      attribs              |-> [i \in 0..(MAX_VERTEX_ATTRIBUTES - 1) |-> GlAttribInit],
      buffer_names         |-> {},
      framebuffer_names    |-> {},
      programs             |-> << >>,
      timer                |-> [names |-> {}, active |-> FALSE, result |-> "none",
                               elapsed |-> 0] ]

Call(m, f, a) == [m EXCEPT !.calls = Append(@, [f |-> f, a |-> a])]

glBindBuffer(m, target, buffer) ==
    IF target = GL_ARRAY_BUFFER
    THEN Call([m EXCEPT !.gl.array_buffer = buffer], "glBindBuffer", <<target, buffer>>)
    ELSE Call([m EXCEPT !.gl.element_array_buffer = buffer], "glBindBuffer", <<target, buffer>>)

glActiveTexture(m, unit) ==
    Call([m EXCEPT !.gl.active_texture = unit], "glActiveTexture", <<unit>>)

\* glBindTexture(GL_TEXTURE_2D, texture) binds on the active unit
glBindTexture(m, texture) ==
    Call([m EXCEPT !.gl.textures[m.gl.active_texture] = texture], "glBindTexture", <<texture>>)

\* ----------------------------------------------------------------- GlCache
CacheInit ==
    [ stored_index_buffer  |-> 0,
      stored_index_type    |-> None,
      stored_vertex_buffer |-> 0,
      stored_texture       |-> 0,
      index_buffer         |-> 0,
      index_type           |-> None,
      vertex_buffer        |-> 0,
      textures             |-> [s \in 0..(MAX_SHADERSTAGE_IMAGES - 1) |-> 0],
      cur_pipeline         |-> None,
      color_blend          |-> None,
      alpha_blend          |-> None,
      stencil              |-> None,
      color_write          |-> <<TRUE, TRUE, TRUE, TRUE>>,
      cull_face            |-> "Nothing",
      attributes           |-> [i \in 0..(MAX_VERTEX_ATTRIBUTES - 1) |-> None] ]

\* Features::from_gles2
from_gles2(is_gles2) == [instancing |-> ~is_gles2]

Panic(m) == [m EXCEPT !.fatal = TRUE]

\* bind_buffer without the comparison against the cached binding
bind_buffer_unconditional(m, target, buffer, index_type) ==
    IF target = GL_ARRAY_BUFFER
    THEN glBindBuffer([m EXCEPT !.cache.vertex_buffer = buffer], target, buffer)
    ELSE [glBindBuffer([m EXCEPT !.cache.index_buffer = buffer], target, buffer)
             EXCEPT !.cache.index_type = index_type]

bind_buffer(m, target, buffer, index_type) ==
    IF target = GL_ARRAY_BUFFER
    THEN IF m.cache.vertex_buffer # buffer
         THEN glBindBuffer([m EXCEPT !.cache.vertex_buffer = buffer], target, buffer)
         ELSE m
    ELSE LET m1 == IF m.cache.index_buffer # buffer
                   THEN glBindBuffer([m EXCEPT !.cache.index_buffer = buffer], target, buffer)
                   ELSE m
         IN  [m1 EXCEPT !.cache.index_type = index_type]

\* store_buffer_binding that keeps the snapshot of an earlier store still to be restored
store_buffer_binding_keep_first(m, target) ==
    IF target = GL_ARRAY_BUFFER
    THEN IF m.cache.stored_vertex_buffer # 0
         THEN m
         ELSE [m EXCEPT !.cache.stored_vertex_buffer = m.cache.vertex_buffer]
    ELSE IF m.cache.stored_index_buffer # 0
         THEN m
         ELSE [m EXCEPT !.cache.stored_index_buffer = m.cache.index_buffer,
                        !.cache.stored_index_type = m.cache.index_type]

\* store_buffer_binding that forgets the index element type
store_buffer_binding_no_type(m, target) ==
    IF target = GL_ARRAY_BUFFER
    THEN [m EXCEPT !.cache.stored_vertex_buffer = m.cache.vertex_buffer]
    ELSE [m EXCEPT !.cache.stored_index_buffer = m.cache.index_buffer,
                   !.cache.stored_index_type = None]

store_buffer_binding(m, target) ==
    IF target = GL_ARRAY_BUFFER
    THEN [m EXCEPT !.cache.stored_vertex_buffer = m.cache.vertex_buffer]
    ELSE [m EXCEPT !.cache.stored_index_buffer = m.cache.index_buffer,
                   !.cache.stored_index_type = m.cache.index_type]

\* restore_buffer_binding that rebinds the snapshot and keeps it in the slot
restore_buffer_binding_keep_slot(m, target) ==
    IF target = GL_ARRAY_BUFFER
    THEN IF m.cache.stored_vertex_buffer # 0
         THEN bind_buffer(m, target, m.cache.stored_vertex_buffer, None)
         ELSE m
    ELSE IF m.cache.stored_index_buffer # 0
         THEN bind_buffer(m, target, m.cache.stored_index_buffer, m.cache.stored_index_type)
         ELSE m

restore_buffer_binding(m, target) ==
    IF target = GL_ARRAY_BUFFER
    THEN IF m.cache.stored_vertex_buffer # 0
         THEN [bind_buffer(m, target, m.cache.stored_vertex_buffer, None)
                  EXCEPT !.cache.stored_vertex_buffer = 0]
         ELSE m
    ELSE IF m.cache.stored_index_buffer # 0
         THEN [bind_buffer(m, target, m.cache.stored_index_buffer, m.cache.stored_index_type)
                  EXCEPT !.cache.stored_index_buffer = 0]
         ELSE m

\* glActiveTexture is issued before the slot is looked up in the bounded table
bind_texture(m, slot_index, texture) ==
    LET m1 == glActiveTexture(m, slot_index)
    IN  IF slot_index >= MAX_SHADERSTAGE_IMAGES
        THEN Panic(m1)
        ELSE IF m1.cache.textures[slot_index] # texture
             THEN [glBindTexture(m1, texture) EXCEPT !.cache.textures[slot_index] = texture]
             ELSE m1

store_texture_binding(m, slot_index) ==
    IF slot_index >= MAX_SHADERSTAGE_IMAGES
    THEN Panic(m)
    ELSE [m EXCEPT !.cache.stored_texture = m.cache.textures[slot_index]]

\* restore_texture_binding written like restore_buffer_binding: nothing when 0 was stored
restore_texture_binding_nonzero(m, slot_index) ==
    IF m.cache.stored_texture # 0
    THEN bind_texture(m, slot_index, m.cache.stored_texture)
    ELSE m

restore_texture_binding(m, slot_index) ==
    bind_texture(m, slot_index, m.cache.stored_texture)

clear_buffer_bindings_cache_first(m) ==
    LET m1 == [m EXCEPT !.cache.vertex_buffer = 0]
        m2 == bind_buffer(m1, GL_ARRAY_BUFFER, 0, None)
        m3 == [m2 EXCEPT !.cache.index_buffer = 0]
    IN  bind_buffer(m3, GL_ELEMENT_ARRAY_BUFFER, 0, None)

clear_buffer_bindings(m) ==
    LET m1 == bind_buffer(m, GL_ARRAY_BUFFER, 0, None)
        m2 == [m1 EXCEPT !.cache.vertex_buffer = 0]
        m3 == bind_buffer(m2, GL_ELEMENT_ARRAY_BUFFER, 0, None)
    IN  [m3 EXCEPT !.cache.index_buffer = 0]

RECURSIVE ClearTexturesFrom(_, _)
ClearTexturesFrom(m, ix) ==
    IF ix >= MAX_SHADERSTAGE_IMAGES
    THEN m
    ELSE IF m.cache.textures[ix] # 0
         THEN ClearTexturesFrom([bind_texture(m, ix, 0) EXCEPT !.cache.textures[ix] = 0], ix + 1)
         ELSE ClearTexturesFrom(m, ix + 1)

clear_texture_bindings(m) == ClearTexturesFrom(m, 0)

\* ------------------------------------------------------------------ Buffer
BufferType == {"VertexBuffer", "IndexBuffer"}

gl_buffer_target(buffer_type) ==
    IF buffer_type = "VertexBuffer" THEN GL_ARRAY_BUFFER ELSE GL_ELEMENT_ARRAY_BUFFER

\* IndexType::for_type::<T>() by size_of::<T>(); None stands for the panic
for_type(size_of_t) ==
    CASE size_of_t = 1 -> Some("Byte")
      [] size_of_t = 2 -> Some("Short")
      [] size_of_t = 4 -> Some("Int")
      [] OTHER -> None

\* IndexType::size
index_type_size(t) ==
    CASE t = "Byte" -> 1
      [] t = "Short" -> 2
      [] t = "Int" -> 4

\* the least name the driver has not handed out (glGenBuffers, glGenFramebuffers)
GenName(names) == CHOOSE n \in 1..(Cardinality(names) + 1) : n \notin names

glGenBuffers(m) ==
    Call([m EXCEPT !.gl.buffer_names = @ \cup {GenName(m.gl.buffer_names)}],
         "glGenBuffers", <<GenName(m.gl.buffer_names)>>)

\* Buffer::immutable::<T>(ctx, buffer_type, data): the context it leaves
\* glDeleteBuffers frees the name, and the driver reverts a binding of the deleted buffer
\* in the current context to 0
glDeleteBuffers(m, buffer) ==
    Call([m EXCEPT !.gl.buffer_names = @ \ {buffer},
                   !.gl.array_buffer = IF @ = buffer THEN 0 ELSE @,
                   !.gl.element_array_buffer = IF @ = buffer THEN 0 ELSE @],
         "glDeleteBuffers", <<buffer>>)

\* impl Drop for Buffer
buffer_drop(m, self) == glDeleteBuffers(m, self.gl_buf)

immutable_ctx(m, buffer_type, size_of_t, len) ==
    IF buffer_type = "IndexBuffer" /\ for_type(size_of_t) = None
    THEN Panic(m)
    ELSE
    LET index_type == IF buffer_type = "IndexBuffer" THEN for_type(size_of_t) ELSE None
        gl_target == gl_buffer_target(buffer_type)
        size == size_of_t * len
        gl_buf == GenName(m.gl.buffer_names)
        m1 == glGenBuffers(m)
        m2 == store_buffer_binding(m1, gl_target)
        m3 == bind_buffer(m2, gl_target, gl_buf, index_type)
        m4 == Call(m3, "glBufferData", <<gl_target, size, "GL_STATIC_DRAW">>)
        m5 == Call(m4, "glBufferSubData", <<gl_target, 0, size>>)
    IN  restore_buffer_binding(m5, gl_target)

\* Buffer::immutable: the Buffer it returns
immutable_buf(m, buffer_type, size_of_t, len) ==
    [ gl_buf      |-> GenName(m.gl.buffer_names),
      buffer_type |-> buffer_type,
      size        |-> size_of_t * len,
      index_type  |-> IF buffer_type = "IndexBuffer" THEN for_type(size_of_t) ELSE None ]

\* Buffer::stream(ctx, buffer_type, size)
stream_ctx(m, buffer_type, size) ==
    LET gl_target == gl_buffer_target(buffer_type)
        gl_buf == GenName(m.gl.buffer_names)
        m1 == glGenBuffers(m)
        m2 == store_buffer_binding(m1, gl_target)
        m3 == bind_buffer(m2, gl_target, gl_buf, None)
        m4 == Call(m3, "glBufferData", <<gl_target, size, "GL_STREAM_DRAW">>)
    IN  restore_buffer_binding(m4, gl_target)

stream_buf(m, buffer_type, size) ==
    [ gl_buf      |-> GenName(m.gl.buffer_names),
      buffer_type |-> buffer_type,
      size        |-> size,
      index_type  |-> IF buffer_type = "IndexBuffer" THEN Some("Short") ELSE None ]

\* Buffer::index_stream(ctx, index_type, size)
index_stream_ctx(m, index_type, size) ==
    LET gl_target == gl_buffer_target("IndexBuffer")
        gl_buf == GenName(m.gl.buffer_names)
        m1 == glGenBuffers(m)
        m2 == store_buffer_binding(m1, gl_target)
        m3 == bind_buffer(m2, gl_target, gl_buf, None)
        m4 == Call(m3, "glBufferData", <<gl_target, size, "GL_STREAM_DRAW">>)
    IN  restore_buffer_binding(m4, gl_target)

index_stream_buf(m, index_type, size) ==
    [ gl_buf      |-> GenName(m.gl.buffer_names),
      buffer_type |-> "IndexBuffer",
      size        |-> size,
      index_type  |-> Some(index_type) ]

\* Buffer::update without the capacity assert
update_no_size_check(m, self, size_of_t, len) ==
    IF self.buffer_type = "IndexBuffer"
       /\ (~IsSome(self.index_type) \/ for_type(size_of_t) = None
           \/ self.index_type # for_type(size_of_t))
    THEN Panic(m)
    ELSE
    LET gl_target == gl_buffer_target(self.buffer_type)
        m1 == store_buffer_binding(m, gl_target)
        m2 == bind_buffer(m1, gl_target, self.gl_buf, self.index_type)
        m3 == Call(m2, "glBufferSubData", <<gl_target, 0, size_of_t * len>>)
    IN  restore_buffer_binding(m3, gl_target)

\* Buffer::update::<T>(&self, ctx, data)
update(m, self, size_of_t, len) ==
    IF self.buffer_type = "IndexBuffer"
       /\ (~IsSome(self.index_type) \/ for_type(size_of_t) = None
           \/ self.index_type # for_type(size_of_t))
    THEN Panic(m)
    ELSE IF ~(size_of_t * len <= self.size)
    THEN Panic(m)
    ELSE
    LET gl_target == gl_buffer_target(self.buffer_type)
        m1 == store_buffer_binding(m, gl_target)
        m2 == bind_buffer(m1, gl_target, self.gl_buf, self.index_type)
        m3 == Call(m2, "glBufferSubData", <<gl_target, 0, size_of_t * len>>)
    IN  restore_buffer_binding(m3, gl_target)

\* -------------------------------------------------------------- RenderPass
glBindFramebuffer(m, framebuffer) ==
    Call([m EXCEPT !.gl.framebuffer = framebuffer], "glBindFramebuffer", <<framebuffer>>)

glGenFramebuffers(m) ==
    Call([m EXCEPT !.gl.framebuffer_names = @ \cup {GenName(m.gl.framebuffer_names)}],
         "glGenFramebuffers", <<GenName(m.gl.framebuffer_names)>>)

\* RenderPass::new(ctx, color_img, depth_img): the context it leaves
render_pass_new_ctx(m, dfb, color_img, depth_img) ==
    LET gl_fb == GenName(m.gl.framebuffer_names)
        m1 == glGenFramebuffers(m)
        m2 == glBindFramebuffer(m1, gl_fb)
        m3 == Call(m2, "glFramebufferTexture2D", <<"GL_COLOR_ATTACHMENT0", color_img>>)
        m4 == IF IsSome(depth_img)
              THEN Call(m3, "glFramebufferTexture2D", <<"GL_DEPTH_ATTACHMENT", Unwrap(depth_img)>>)
              ELSE m3
    IN  glBindFramebuffer(m4, dfb)

\* RenderPass::new: the RenderPassInternal it pushes
render_pass_new_pass(m, color_img, depth_img) ==
    [ gl_fb |-> GenName(m.gl.framebuffer_names),
      texture |-> color_img,
      depth_texture |-> depth_img ]

\* Clear::apply
clear_apply(m, clear) ==
    LET m1 == IF IsSome(clear.color) THEN Call(m, "glClearColor", clear.color) ELSE m
        m2 == IF IsSome(clear.depth) THEN Call(m1, "glClearDepthf", clear.depth) ELSE m1
        m3 == IF IsSome(clear.stencil) THEN Call(m2, "glClearStencil", clear.stencil) ELSE m2
    IN  IF IsSome(clear.color) \/ IsSome(clear.depth) \/ IsSome(clear.stencil)
        THEN Call(m3, "glClear",
                  <<IsSome(clear.color), IsSome(clear.depth), IsSome(clear.stencil)>>)
        ELSE m3

\* PassAction::Nothing, and PassAction::default()
PassActionNothing == [kind |-> "Nothing"]
PassActionDefault ==
    [kind |-> "Clear",
     clear |-> [color |-> Some("0,0,0,0"), depth |-> Some("1"), stencil |-> None]]
PassActions == {PassActionNothing, PassActionDefault}

\* GraphicsContext::begin_pass(pass, action); the window of a context made by
\* create_context is set, so window() does not fail
begin_pass(m, dfb, win, pss, pass, action) ==
    IF \/ IsSome(pass) /\ Unwrap(pass) >= Len(pss)
       \/ ~IsSome(pass) /\ ~IsSome(win)
    THEN Panic(m)
    ELSE
    LET framebuffer == IF IsSome(pass) THEN pss[Unwrap(pass) + 1].gl_fb ELSE dfb
        size == IF IsSome(pass) THEN <<"texture", pss[Unwrap(pass) + 1].texture>>
                ELSE <<"window", 0>>
        m1 == glBindFramebuffer(m, framebuffer)
        m2 == Call(m1, "glViewport", size)
        m3 == Call(m2, "glScissor", size)
    IN  IF action.kind = "Clear" THEN clear_apply(m3, action.clear) ELSE m3

\* GraphicsContext::end_render_pass
\* end_render_pass that leaves the buffer bindings as they are
end_render_pass_framebuffer_only(m, dfb) == glBindFramebuffer(m, dfb)

end_render_pass(m, dfb) ==
    LET m1 == glBindFramebuffer(m, dfb)
        m2 == bind_buffer(m1, GL_ARRAY_BUFFER, 0, None)
    IN  bind_buffer(m2, GL_ELEMENT_ARRAY_BUFFER, 0, None)

\* GraphicsContext::commit_frame
commit_frame_buffers_only(m) == clear_buffer_bindings(m)

\* commit_frame that also forgets the current pipeline
commit_frame_forget_pipeline(m) ==
    [clear_texture_bindings(clear_buffer_bindings(m)) EXCEPT !.cache.cur_pipeline = None]

commit_frame(m) == clear_texture_bindings(clear_buffer_bindings(m))

\* ------------------------------------------------------------------ Shader
\* What the driver's compiler makes of a vertex / fragment source pair: whether a
\* source holds a NUL, compiles, how long its info log is, whether the program links,
\* and the locations the linked program gives its active attributes and uniforms
\* (-1: not active).
glCreateProgram(m, code) ==
    Call([m EXCEPT !.gl.programs = Append(@, [attribs |-> code.attribs,
                                              uniforms |-> code.uniforms,
                                              linked |-> code.link])],
         "glCreateProgram", <<Len(m.gl.programs) + 1>>)

glUseProgram(m, program) ==
    Call([m EXCEPT !.gl.program = program], "glUseProgram", <<program>>)

\* get_uniform_location(program, name): None when the driver answers -1
get_uniform_location(m, program, name) ==
    IF m.gl.programs[program].uniforms[name] = -1
    THEN None
    ELSE Some(m.gl.programs[program].uniforms[name])

\* UniformType::size(): the byte size of one element of the type
UniformType == {"Float1", "Float2", "Float3", "Float4", "Int1", "Int2", "Int3", "Int4", "Mat4"}

uniform_type_size(t) ==
    CASE t \in {"Float1", "Int1"} -> 4
      [] t \in {"Float2", "Int2"} -> 8
      [] t \in {"Float3", "Int3"} -> 12
      [] t \in {"Float4", "Int4"} -> 16
      [] t = "Mat4" -> 64

\* load_shader_internal, the scan over meta.uniforms.uniforms: the byte offset of slot k
RECURSIVE uniform_offset(_, _)
uniform_offset(uniforms, k) ==
    IF k <= 1 THEN 0
    ELSE uniform_offset(uniforms, k - 1)
         + uniform_type_size(uniforms[k - 1].uniform_type) * uniforms[k - 1].array_count

\* load_shader(shader_type, source): [m, res], res "Ok" or the ShaderError
load_shader(m, shader_type, source) ==
    LET m1 == Call(m, "glCreateShader", <<shader_type>>)
    IN  IF source.nul
        THEN [m |-> m1, res |-> "FFINulError"]
        ELSE LET m2 == Call(Call(m1, "glShaderSource", <<shader_type>>),
                            "glCompileShader", <<shader_type>>)
             IN  IF ~source.ok
                 THEN [m |-> IF source.log >= 1 THEN m2 ELSE Panic(m2),
                       res |-> "CompilationError"]
                 ELSE [m |-> m2, res |-> "Ok"]

\* load_shader_internal(vertex_shader, fragment_shader, meta): [m, res, shader]
load_shader_internal(m, code, meta) ==
    LET v == load_shader(m, "GL_VERTEX_SHADER", code.vs)
        f == load_shader(v.m, "GL_FRAGMENT_SHADER", code.fs)
        program == Len(f.m.gl.programs) + 1
        m1 == glCreateProgram(f.m, code)
        m2 == Call(Call(Call(m1, "glAttachShader", <<program>>),
                        "glAttachShader", <<program>>), "glLinkProgram", <<program>>)
        m3 == glUseProgram(m2, program)
    IN  IF v.res # "Ok" \/ v.m.fatal
        THEN [m |-> v.m, res |-> v.res, shader |-> None]
        ELSE IF f.res # "Ok" \/ f.m.fatal
        THEN [m |-> f.m, res |-> f.res, shader |-> None]
        ELSE IF ~code.link
        THEN [m |-> IF code.link_log >= 1 THEN m2 ELSE Panic(m2),
              res |-> "LinkError", shader |-> None]
        ELSE [m |-> m3, res |-> "Ok",
              shader |-> Some([ program |-> program,
                                images |-> [n \in 1..Len(meta.images) |->
                                    [gl_loc |-> get_uniform_location(m3, program, meta.images[n])]],
                                uniforms |-> [k \in 1..Len(meta.uniforms) |->
                                    [ gl_loc |-> get_uniform_location(m3, program,
                                                                      meta.uniforms[k].name),
                                      _offset |-> uniform_offset(meta.uniforms, k),
                                      _size |-> uniform_type_size(meta.uniforms[k].uniform_type),
                                      uniform_type |-> meta.uniforms[k].uniform_type,
                                      array_count |-> meta.uniforms[k].array_count ]] ])]

\* ---------------------------------------------------------------- Pipeline
VertexFormat ==
    {"Float1", "Float2", "Float3", "Float4", "Byte1", "Byte2", "Byte3", "Byte4",
     "Short1", "Short2", "Short3", "Short4", "Int1", "Int2", "Int3", "Int4", "Mat4"}

\* VertexFormat::size
format_size(f) ==
    CASE f \in {"Float1", "Byte1", "Short1", "Int1"} -> 1
      [] f \in {"Float2", "Byte2", "Short2", "Int2"} -> 2
      [] f \in {"Float3", "Byte3", "Short3", "Int3"} -> 3
      [] f \in {"Float4", "Byte4", "Short4", "Int4"} -> 4
      [] f = "Mat4" -> 16

\* VertexFormat::type_
format_type(f) ==
    CASE f \in {"Float1", "Float2", "Float3", "Float4", "Mat4"} -> "GL_FLOAT"
      [] f \in {"Byte1", "Byte2", "Byte3", "Byte4"} -> "GL_UNSIGNED_BYTE"
      [] f \in {"Short1", "Short2", "Short3", "Short4"} -> "GL_UNSIGNED_SHORT"
      [] f \in {"Int1", "Int2", "Int3", "Int4"} -> "GL_UNSIGNED_INT"

\* VertexFormat::byte_len
byte_len(f) ==
    CASE f \in {"Float1", "Float2", "Float3", "Float4", "Int1", "Int2", "Int3", "Int4"}
            -> format_size(f) * 4
      [] f \in {"Byte1", "Byte2", "Byte3", "Byte4"} -> format_size(f)
      [] f \in {"Short1", "Short2", "Short3", "Short4"} -> format_size(f) * 2
      [] f = "Mat4" -> 16 * 4

\* BufferLayout::default(), PipelineConf::default()
BufferLayoutDefault == [stride |-> 0, step_func |-> "PerVertex", step_rate |-> 1]

PipelineConfDefault ==
    [ cull_face |-> "Nothing", front_face_order |-> "CounterClockwise",
      depth_test |-> "Always", depth_write |-> FALSE, depth_write_offset |-> None,
      color_blend |-> None, alpha_blend |-> None, stencil_test |-> None,
      color_write |-> <<TRUE, TRUE, TRUE, TRUE>>, primitive_type |-> "Triangles" ]

\* glGetAttribLocation(program, name): -1 when the program has no such active attribute
glGetAttribLocation(g, program, name) ==
    IF name \in DOMAIN g.programs[program].attribs
    THEN g.programs[program].attribs[name]
    ELSE -1

\* with_params, first loop: the stride of every buffer; `bad` when an attribute names
\* no buffer of the layout or a stride leaves 255 behind
RECURSIVE StridePass_last_only(_, _, _, _)
StridePass_last_only(buffer_layout, attributes, i, strides) ==
    IF i > Len(attributes)
    THEN [bad |-> FALSE, strides |-> strides]
    ELSE LET a == attributes[i]
             bi == a.buffer_index + 1
         IN  IF bi > Len(buffer_layout)
             THEN [bad |-> TRUE, strides |-> strides]
             ELSE LET st == IF buffer_layout[bi].stride = 0
                            THEN byte_len(a.format)
                            ELSE buffer_layout[bi].stride
                  IN  IF ~(st <= 255)
                      THEN [bad |-> TRUE, strides |-> strides]
                      ELSE StridePass_last_only(buffer_layout, attributes, i + 1,
                                                [strides EXCEPT ![bi] = st])

RECURSIVE StridePass_no_assert(_, _, _, _)
StridePass_no_assert(buffer_layout, attributes, i, strides) ==
    IF i > Len(attributes)
    THEN [bad |-> FALSE, strides |-> strides]
    ELSE LET a == attributes[i]
             bi == a.buffer_index + 1
         IN  IF bi > Len(buffer_layout)
             THEN [bad |-> TRUE, strides |-> strides]
             ELSE LET st == IF buffer_layout[bi].stride = 0
                            THEN strides[bi] + byte_len(a.format)
                            ELSE buffer_layout[bi].stride
                  IN  StridePass_no_assert(buffer_layout, attributes, i + 1,
                                           [strides EXCEPT ![bi] = st])

RECURSIVE StridePass(_, _, _, _)
StridePass(buffer_layout, attributes, i, strides) ==
    IF i > Len(attributes)
    THEN [bad |-> FALSE, strides |-> strides]
    ELSE LET a == attributes[i]
             bi == a.buffer_index + 1
         IN  IF bi > Len(buffer_layout)
             THEN [bad |-> TRUE, strides |-> strides]
             ELSE LET st == IF buffer_layout[bi].stride = 0
                            THEN strides[bi] + byte_len(a.format)
                            ELSE buffer_layout[bi].stride
                  IN  IF ~(st <= 255)
                      THEN [bad |-> TRUE, strides |-> strides]
                      ELSE StridePass(buffer_layout, attributes, i + 1,
                                      [strides EXCEPT ![bi] = st])

\* with_params, attributes_len
RECURSIVE attributes_len(_, _)
attributes_len(attributes, i) ==
    IF i > Len(attributes) THEN 0
    ELSE (IF attributes[i].format = "Mat4" THEN 4 ELSE 1) + attributes_len(attributes, i + 1)

\* with_params, the inner loop over the attributes_count entries of one attribute:
\* acc = [bad, layout, offsets]
RECURSIVE EntryPass_one_location(_, _, _, _, _, _, _, _)
EntryPass_one_location(acc, a, format, attr_loc, stride, divisor, i, attributes_count) ==
    IF i >= attributes_count \/ acc.bad
    THEN acc
    ELSE LET bi == a.buffer_index + 1
             loc == attr_loc
             attr == [ attr_loc |-> loc, size |-> format_size(format),
                       type_ |-> format_type(format), offset |-> acc.offsets[bi],
                       stride |-> stride, buffer_index |-> a.buffer_index,
                       divisor |-> divisor ]
             acc1 == IF attr_loc = -1
                     THEN acc
                     ELSE IF ~(loc < Len(acc.layout))
                     THEN [acc EXCEPT !.bad = TRUE]
                     ELSE [acc EXCEPT !.layout[loc + 1] = Some(attr)]
         IN  IF acc1.bad
             THEN acc1
             ELSE EntryPass_one_location([acc1 EXCEPT !.offsets[bi] = @ + byte_len(format)],
                            a, format, attr_loc, stride, divisor, i + 1, attributes_count)

RECURSIVE EntryPass(_, _, _, _, _, _, _, _)
EntryPass(acc, a, format, attr_loc, stride, divisor, i, attributes_count) ==
    IF i >= attributes_count \/ acc.bad
    THEN acc
    ELSE LET bi == a.buffer_index + 1
             loc == attr_loc + i
             attr == [ attr_loc |-> loc, size |-> format_size(format),
                       type_ |-> format_type(format), offset |-> acc.offsets[bi],
                       stride |-> stride, buffer_index |-> a.buffer_index,
                       divisor |-> divisor ]
             acc1 == IF attr_loc = -1
                     THEN acc
                     ELSE IF ~(loc < Len(acc.layout))
                     THEN [acc EXCEPT !.bad = TRUE]
                     ELSE [acc EXCEPT !.layout[loc + 1] = Some(attr)]
         IN  IF acc1.bad
             THEN acc1
             ELSE EntryPass([acc1 EXCEPT !.offsets[bi] = @ + byte_len(format)],
                            a, format, attr_loc, stride, divisor, i + 1, attributes_count)

\* with_params, second loop: acc = [bad, layout, offsets]
RECURSIVE LayoutPass_skip_unresolved(_, _, _, _, _, _, _)
LayoutPass_skip_unresolved(g, program, buffer_layout, attributes, strides, i, acc) ==
    IF i > Len(attributes) \/ acc.bad
    THEN acc
    ELSE LET a == attributes[i]
             layout == buffer_layout[a.buffer_index + 1]
             attr_loc == glGetAttribLocation(g, program, a.name)
             divisor == IF layout.step_func = "PerVertex" THEN 0 ELSE layout.step_rate
             format == IF a.format = "Mat4" THEN "Float4" ELSE a.format
             attributes_count == IF a.format = "Mat4" THEN 4 ELSE 1
         IN  LayoutPass_skip_unresolved(g, program, buffer_layout, attributes, strides, i + 1,
                        IF attr_loc = -1
                        THEN acc
                        ELSE EntryPass(acc, a, format, attr_loc, strides[a.buffer_index + 1],
                                       divisor, 0, attributes_count))

\* LayoutPass with the buffer's step_rate as divisor whatever its step function
RECURSIVE LayoutPass_step_rate(_, _, _, _, _, _, _)
LayoutPass_step_rate(g, program, buffer_layout, attributes, strides, i, acc) ==
    IF i > Len(attributes) \/ acc.bad
    THEN acc
    ELSE LET a == attributes[i]
             layout == buffer_layout[a.buffer_index + 1]
             attr_loc == glGetAttribLocation(g, program, a.name)
             divisor == layout.step_rate
             format == IF a.format = "Mat4" THEN "Float4" ELSE a.format
             attributes_count == IF a.format = "Mat4" THEN 4 ELSE 1
         IN  LayoutPass_step_rate(g, program, buffer_layout, attributes, strides, i + 1,
                        EntryPass(acc, a, format, attr_loc, strides[a.buffer_index + 1],
                                  divisor, 0, attributes_count))

RECURSIVE LayoutPass(_, _, _, _, _, _, _)
LayoutPass(g, program, buffer_layout, attributes, strides, i, acc) ==
    IF i > Len(attributes) \/ acc.bad
    THEN acc
    ELSE LET a == attributes[i]
             layout == buffer_layout[a.buffer_index + 1]
             attr_loc == glGetAttribLocation(g, program, a.name)
             divisor == IF layout.step_func = "PerVertex" THEN 0 ELSE layout.step_rate
             format == IF a.format = "Mat4" THEN "Float4" ELSE a.format
             attributes_count == IF a.format = "Mat4" THEN 4 ELSE 1
         IN  LayoutPass(g, program, buffer_layout, attributes, strides, i + 1,
                        EntryPass(acc, a, format, attr_loc, strides[a.buffer_index + 1],
                                  divisor, 0, attributes_count))

\* Pipeline::with_params(ctx, buffer_layout, attributes, shader, params):
\* [bad, pipeline]; bad stands for the panic. The only driver calls are
\* glGetAttribLocation queries of the shader's program.
with_params(g, shs, buffer_layout, attributes, shader, params) ==
    LET sp == StridePass(buffer_layout, attributes, 1, [b \in 1..Len(buffer_layout) |-> 0])
        lp == LayoutPass(g, shs[shader + 1].program, buffer_layout, attributes, sp.strides, 1,
                         [ bad |-> FALSE,
                           layout |-> [k \in 1..attributes_len(attributes, 1) |-> None],
                           offsets |-> [b \in 1..Len(buffer_layout) |-> 0] ])
    IN  IF sp.bad
        THEN [bad |-> TRUE, pipeline |-> None]
        ELSE IF lp.bad
        THEN [bad |-> TRUE, pipeline |-> None]
        ELSE [bad |-> FALSE,
              pipeline |-> Some([layout |-> lp.layout, shader |-> shader, params |-> params])]

\* Pipeline::set_blend(&self, ctx, color_blend): the arena after the call
pipeline_set_blend(pls, self, color_blend) ==
    [pls EXCEPT ![self + 1].params.color_blend = color_blend]

\* ------------------------------------------------- GraphicsContext setters
glEnable(m, cap) == Call([m EXCEPT !.gl.caps = @ \cup {cap}], "glEnable", <<cap>>)
glDisable(m, cap) == Call([m EXCEPT !.gl.caps = @ \ {cap}], "glDisable", <<cap>>)

set_cull_face(m, cull_face) ==
    IF m.cache.cull_face = cull_face
    THEN m
    ELSE LET m1 == CASE cull_face = "Nothing" -> glDisable(m, "GL_CULL_FACE")
                     [] cull_face = "Front" ->
                            Call([glEnable(m, "GL_CULL_FACE") EXCEPT !.gl.cull_face = "GL_FRONT"],
                                 "glCullFace", <<"GL_FRONT">>)
                     [] cull_face = "Back" ->
                            Call([glEnable(m, "GL_CULL_FACE") EXCEPT !.gl.cull_face = "GL_BACK"],
                                 "glCullFace", <<"GL_BACK">>)
         IN  [m1 EXCEPT !.cache.cull_face = cull_face]

set_color_write(m, color_write) ==
    IF m.cache.color_write = color_write
    THEN m
    ELSE [Call([m EXCEPT !.gl.color_mask = color_write], "glColorMask", color_write)
             EXCEPT !.cache.color_write = color_write]

\* set_blend that enables blending for every present colour state, cached or not
set_blend_always_enable(m, color_blend, alpha_blend) ==
    IF ~IsSome(color_blend) /\ IsSome(alpha_blend)
    THEN Panic(m)
    ELSE IF m.cache.color_blend = color_blend /\ m.cache.alpha_blend = alpha_blend
    THEN m
    ELSE LET m1 == IF IsSome(color_blend)
                   THEN LET e == glEnable(m, "GL_BLEND")
                            c == Unwrap(color_blend)
                        IN  IF IsSome(alpha_blend)
                            THEN Call(Call([e EXCEPT !.gl.blend = Some(<<c, Unwrap(alpha_blend)>>)],
                                           "glBlendFuncSeparate", <<c, Unwrap(alpha_blend)>>),
                                      "glBlendEquationSeparate", <<c, Unwrap(alpha_blend)>>)
                            ELSE Call(Call([e EXCEPT !.gl.blend = Some(<<c, c>>)],
                                           "glBlendFunc", <<c>>),
                                      "glBlendEquationSeparate", <<c, c>>)
                   ELSE IF IsSome(m.cache.color_blend)
                        THEN glDisable(m, "GL_BLEND")
                        ELSE m
         IN  [m1 EXCEPT !.cache.color_blend = color_blend, !.cache.alpha_blend = alpha_blend]

set_blend(m, color_blend, alpha_blend) ==
    IF ~IsSome(color_blend) /\ IsSome(alpha_blend)
    THEN Panic(m)
    ELSE IF m.cache.color_blend = color_blend /\ m.cache.alpha_blend = alpha_blend
    THEN m
    ELSE LET m1 == IF IsSome(color_blend)
                   THEN LET e == IF ~IsSome(m.cache.color_blend) THEN glEnable(m, "GL_BLEND") ELSE m
                            c == Unwrap(color_blend)
                        IN  IF IsSome(alpha_blend)
                            THEN Call(Call([e EXCEPT !.gl.blend = Some(<<c, Unwrap(alpha_blend)>>)],
                                           "glBlendFuncSeparate", <<c, Unwrap(alpha_blend)>>),
                                      "glBlendEquationSeparate", <<c, Unwrap(alpha_blend)>>)
                            ELSE Call(Call([e EXCEPT !.gl.blend = Some(<<c, c>>)],
                                           "glBlendFunc", <<c>>),
                                      "glBlendEquationSeparate", <<c, c>>)
                   ELSE IF IsSome(m.cache.color_blend)
                        THEN glDisable(m, "GL_BLEND")
                        ELSE m
         IN  [m1 EXCEPT !.cache.color_blend = color_blend, !.cache.alpha_blend = alpha_blend]

set_stencil(m, stencil_test) ==
    IF m.cache.stencil = stencil_test
    THEN m
    ELSE LET m1 == IF IsSome(stencil_test)
                   THEN LET e == IF ~IsSome(m.cache.stencil)
                                 THEN glEnable(m, "GL_STENCIL_TEST") ELSE m
                            st == Unwrap(stencil_test)
                            f1 == Call(e, "glStencilOpSeparate", <<"GL_FRONT", st.front>>)
                            f2 == Call(f1, "glStencilFuncSeparate", <<"GL_FRONT", st.front>>)
                            f3 == Call(f2, "glStencilMaskSeparate", <<"GL_FRONT", st.front>>)
                            b1 == Call(f3, "glStencilOpSeparate", <<"GL_BACK", st.back>>)
                            b2 == Call(b1, "glStencilFuncSeparate", <<"GL_BACK", st.back>>)
                            b3 == Call(b2, "glStencilMaskSeparate", <<"GL_BACK", st.back>>)
                        IN  [b3 EXCEPT !.gl.stencil = stencil_test]
                   ELSE IF IsSome(m.cache.stencil)
                        THEN glDisable(m, "GL_STENCIL_TEST")
                        ELSE m
         IN  [m1 EXCEPT !.cache.stencil = stencil_test]

\* From<Comparison> for GLenum
gl_comparison(cmp) ==
    CASE cmp = "Never" -> "GL_NEVER"
      [] cmp = "Less" -> "GL_LESS"
      [] cmp = "LessOrEqual" -> "GL_LEQUAL"
      [] cmp = "Greater" -> "GL_GREATER"
      [] cmp = "GreaterOrEqual" -> "GL_GEQUAL"
      [] cmp = "Equal" -> "GL_EQUAL"
      [] cmp = "NotEqual" -> "GL_NOTEQUAL"
      [] cmp = "Always" -> "GL_ALWAYS"

\* GraphicsContext::apply_pipeline(&pipeline)
apply_pipeline(m, pls, shs, pipeline) ==
    LET params == pls[pipeline + 1].params
        shader == shs[pls[pipeline + 1].shader + 1]
        m1 == [m EXCEPT !.cache.cur_pipeline = Some(pipeline)]
        m2 == glUseProgram(m1, shader.program)
        m3 == glEnable(m2, "GL_SCISSOR_TEST")
        m4 == IF params.depth_write
              THEN Call([glEnable(m3, "GL_DEPTH_TEST")
                            EXCEPT !.gl.depth_func = gl_comparison(params.depth_test)],
                        "glDepthFunc", <<gl_comparison(params.depth_test)>>)
              ELSE glDisable(m3, "GL_DEPTH_TEST")
        m5 == IF params.front_face_order = "Clockwise"
              THEN Call([m4 EXCEPT !.gl.front_face = "GL_CW"], "glFrontFace", <<"GL_CW">>)
              ELSE Call([m4 EXCEPT !.gl.front_face = "GL_CCW"], "glFrontFace", <<"GL_CCW">>)
        m6 == set_cull_face(m5, params.cull_face)
        m7 == set_blend(m6, params.color_blend, params.alpha_blend)
    IN  IF m7.fatal
        THEN m7
        ELSE set_color_write(set_stencil(m7, params.stencil_test), params.color_write)

\* ----------------------------------------------------------- apply_bindings
glVertexAttribPointer(m, index, size, type, stride, offset) ==
    Call([m EXCEPT !.gl.attribs[index] =
              [@ EXCEPT !.size = size, !.type = type, !.stride = stride,
                        !.offset = offset, !.buffer = m.gl.array_buffer]],
         "glVertexAttribPointer", <<index, size, type, stride, offset>>)

glVertexAttribDivisor(m, index, divisor) ==
    Call([m EXCEPT !.gl.attribs[index].divisor = divisor],
         "glVertexAttribDivisor", <<index, divisor>>)

glEnableVertexAttribArray(m, index) ==
    Call([m EXCEPT !.gl.attribs[index].enabled = TRUE], "glEnableVertexAttribArray", <<index>>)

glDisableVertexAttribArray(m, index) ==
    Call([m EXCEPT !.gl.attribs[index].enabled = FALSE], "glDisableVertexAttribArray", <<index>>)

\* apply_bindings, the loop over the shader's images
RECURSIVE ImagesPass(_, _, _, _)
ImagesPass(m, shader, bindings, n) ==
    IF n >= Len(shader.images) \/ m.fatal
    THEN m
    ELSE IF n >= Len(bindings.images)
    THEN Panic(m)
    ELSE IF IsSome(shader.images[n + 1].gl_loc)
    THEN LET m1 == bind_texture(m, n, bindings.images[n + 1])
         IN  ImagesPass(IF m1.fatal THEN m1
                        ELSE Call(m1, "glUniform1i", <<Unwrap(shader.images[n + 1].gl_loc), n>>),
                        shader, bindings, n + 1)
    ELSE ImagesPass(m, shader, bindings, n + 1)

\* apply_bindings, one round of the loop over the attribute slots
attribute_step_any_buffer(m, pip, feats, bindings, attr_index) ==
    LET cached_attr == m.cache.attributes[attr_index]
        pip_attribute == IF attr_index < Len(pip.layout) THEN pip.layout[attr_index + 1] ELSE None
    IN  IF IsSome(pip_attribute)
        THEN LET attribute == Unwrap(pip_attribute)
             IN  IF ~(attribute.buffer_index < Len(bindings.vertex_buffers))
                 THEN Panic(m)
                 ELSE LET vb == bindings.vertex_buffers[attribute.buffer_index + 1]
                      IN  IF ~IsSome(cached_attr)
                             \/ attribute # Unwrap(cached_attr).attribute
                          THEN LET m1 == bind_buffer(m, GL_ARRAY_BUFFER, vb.gl_buf, vb.index_type)
                                   m2 == glVertexAttribPointer(m1, attr_index, attribute.size,
                                             attribute.type_, attribute.stride, attribute.offset)
                                   m3 == IF feats.instancing
                                         THEN glVertexAttribDivisor(m2, attr_index, attribute.divisor)
                                         ELSE m2
                                   m4 == glEnableVertexAttribArray(m3, attr_index)
                               IN  [m4 EXCEPT !.cache.attributes[attr_index] =
                                        Some([attribute |-> attribute, gl_vbuf |-> vb.gl_buf])]
                          ELSE m
        ELSE IF IsSome(cached_attr)
             THEN [glDisableVertexAttribArray(m, attr_index)
                      EXCEPT !.cache.attributes[attr_index] = None]
             ELSE m

attribute_step(m, pip, feats, bindings, attr_index) ==
    LET cached_attr == m.cache.attributes[attr_index]
        pip_attribute == IF attr_index < Len(pip.layout) THEN pip.layout[attr_index + 1] ELSE None
    IN  IF IsSome(pip_attribute)
        THEN LET attribute == Unwrap(pip_attribute)
             IN  IF ~(attribute.buffer_index < Len(bindings.vertex_buffers))
                 THEN Panic(m)
                 ELSE LET vb == bindings.vertex_buffers[attribute.buffer_index + 1]
                      IN  IF ~IsSome(cached_attr)
                             \/ attribute # Unwrap(cached_attr).attribute
                             \/ Unwrap(cached_attr).gl_vbuf # vb.gl_buf
                          THEN LET m1 == bind_buffer(m, GL_ARRAY_BUFFER, vb.gl_buf, vb.index_type)
                                   m2 == glVertexAttribPointer(m1, attr_index, attribute.size,
                                             attribute.type_, attribute.stride, attribute.offset)
                                   m3 == IF feats.instancing
                                         THEN glVertexAttribDivisor(m2, attr_index, attribute.divisor)
                                         ELSE m2
                                   m4 == glEnableVertexAttribArray(m3, attr_index)
                               IN  [m4 EXCEPT !.cache.attributes[attr_index] =
                                        Some([attribute |-> attribute, gl_vbuf |-> vb.gl_buf])]
                          ELSE m
        ELSE IF IsSome(cached_attr)
             THEN [glDisableVertexAttribArray(m, attr_index)
                      EXCEPT !.cache.attributes[attr_index] = None]
             ELSE m

RECURSIVE AttributesPass(_, _, _, _, _)
AttributesPass(m, pip, feats, bindings, attr_index) ==
    IF attr_index >= MAX_VERTEX_ATTRIBUTES \/ m.fatal
    THEN m
    ELSE AttributesPass(attribute_step(m, pip, feats, bindings, attr_index),
                        pip, feats, bindings, attr_index + 1)

\* GraphicsContext::apply_bindings(&bindings)
apply_bindings(m, pls, shs, feats, bindings) ==
    IF ~IsSome(m.cache.cur_pipeline)
    THEN Panic(m)
    ELSE LET pip == pls[Unwrap(m.cache.cur_pipeline) + 1]
             shader == shs[pip.shader + 1]
             m1 == ImagesPass(m, shader, bindings, 0)
             m2 == bind_buffer(m1, GL_ELEMENT_ARRAY_BUFFER, bindings.index_buffer.gl_buf,
                               bindings.index_buffer.index_type)
         IN  IF m1.fatal THEN m1 ELSE AttributesPass(m2, pip, feats, bindings, 0)

\* the upload call of a uniform type
uniform_call(t) ==
    CASE t = "Float1" -> "glUniform1fv" [] t = "Float2" -> "glUniform2fv"
      [] t = "Float3" -> "glUniform3fv" [] t = "Float4" -> "glUniform4fv"
      [] t = "Int1" -> "glUniform1iv" [] t = "Int2" -> "glUniform2iv"
      [] t = "Int3" -> "glUniform3iv" [] t = "Int4" -> "glUniform4iv"
      [] t = "Mat4" -> "glUniformMatrix4fv"

\* UniformsPass with the offset advanced only for the slots that have a location
RECURSIVE UniformsPass_skip_absent(_, _, _, _, _, _)
UniformsPass_skip_absent(m, uniforms, k, offset, size, overflow_checks) ==
    IF k > Len(uniforms) \/ m.fatal
    THEN m
    ELSE LET uniform == uniforms[k]
             words == uniform_type_size(uniform.uniform_type) \div 4
             in_range == IF size < words THEN ~overflow_checks ELSE offset <= size - words
             m1 == IF IsSome(uniform.gl_loc)
                   THEN Call(m, uniform_call(uniform.uniform_type),
                             <<Unwrap(uniform.gl_loc), uniform.array_count, offset>>)
                   ELSE m
         IN  IF ~in_range
             THEN Panic(m)
             ELSE UniformsPass_skip_absent(m1, uniforms, k + 1,
                                           IF IsSome(uniform.gl_loc)
                                           THEN offset + words * uniform.array_count
                                           ELSE offset,
                                           size, overflow_checks)

\* apply_uniforms_from_bytes, the loop over the shader's uniforms; offset counts 4-byte
\* words. The assert evaluates size - uniform_type.size() / 4 in usize: when size is the
\* smaller, a build with overflow checks panics and a build without wraps to a value near
\* 2^64, which no offset exceeds.
RECURSIVE UniformsPass(_, _, _, _, _, _)
UniformsPass(m, uniforms, k, offset, size, overflow_checks) ==
    IF k > Len(uniforms) \/ m.fatal
    THEN m
    ELSE LET uniform == uniforms[k]
             words == uniform_type_size(uniform.uniform_type) \div 4
             in_range == IF size < words THEN ~overflow_checks ELSE offset <= size - words
             m1 == IF IsSome(uniform.gl_loc)
                   THEN Call(m, uniform_call(uniform.uniform_type),
                             <<Unwrap(uniform.gl_loc), uniform.array_count, offset>>)
                   ELSE m
         IN  IF ~in_range
             THEN Panic(m)
             ELSE UniformsPass(m1, uniforms, k + 1, offset + words * uniform.array_count,
                               size, overflow_checks)

\* GraphicsContext::apply_uniforms_from_bytes(uniform_ptr, size)
apply_uniforms_from_bytes(m, pls, shs, size, overflow_checks) ==
    IF ~IsSome(m.cache.cur_pipeline)
    THEN Panic(m)
    ELSE UniformsPass(m, shs[pls[Unwrap(m.cache.cur_pipeline) + 1].shader + 1].uniforms,
                      1, 0, size, overflow_checks)

\* From<PrimitiveType> for GLenum, From<IndexType> for GLenum
gl_primitive_type(primitive_type) ==
    CASE primitive_type = "Triangles" -> "GL_TRIANGLES"
      [] primitive_type = "TriangleStrip" -> "GL_TRIANGLE_STRIP"
      [] primitive_type = "Lines" -> "GL_LINES"
      [] primitive_type = "LineStrip" -> "GL_LINE_STRIP"

gl_index_type(index_type) ==
    CASE index_type = "Byte" -> "GL_UNSIGNED_BYTE"
      [] index_type = "Short" -> "GL_UNSIGNED_SHORT"
      [] index_type = "Int" -> "GL_UNSIGNED_INT"

\* draw with the instancing gate ahead of the pipeline check
draw_gate_first(m, pls, feats, base_element, num_elements, num_instances) ==
    IF ~feats.instancing /\ num_instances # 1
    THEN m
    ELSE IF ~IsSome(m.cache.cur_pipeline)
    THEN Panic(m)
    ELSE LET pip == pls[Unwrap(m.cache.cur_pipeline) + 1]
             primitive_type == gl_primitive_type(pip.params.primitive_type)
         IN  IF ~IsSome(m.cache.index_type)
             THEN Panic(m)
             ELSE LET index_type == Unwrap(m.cache.index_type)
                  IN  IF feats.instancing
                      THEN Call(m, "glDrawElementsInstanced",
                                <<primitive_type, num_elements, gl_index_type(index_type),
                                  index_type_size(index_type) * base_element, num_instances>>)
                      ELSE Call(m, "glDrawElements",
                                <<primitive_type, num_elements, gl_index_type(index_type),
                                  index_type_size(index_type) * base_element>>)

\* draw without the instancing gate
draw_no_gate(m, pls, feats, base_element, num_elements, num_instances) ==
    IF ~IsSome(m.cache.cur_pipeline)
    THEN Panic(m)
    ELSE LET pip == pls[Unwrap(m.cache.cur_pipeline) + 1]
             primitive_type == gl_primitive_type(pip.params.primitive_type)
         IN  IF ~IsSome(m.cache.index_type)
             THEN Panic(m)
             ELSE LET index_type == Unwrap(m.cache.index_type)
                  IN  IF feats.instancing
                      THEN Call(m, "glDrawElementsInstanced",
                                <<primitive_type, num_elements, gl_index_type(index_type),
                                  index_type_size(index_type) * base_element, num_instances>>)
                      ELSE Call(m, "glDrawElements",
                                <<primitive_type, num_elements, gl_index_type(index_type),
                                  index_type_size(index_type) * base_element>>)

\* draw with the start offset counted in elements
draw_element_offset(m, pls, feats, base_element, num_elements, num_instances) ==
    IF ~IsSome(m.cache.cur_pipeline)
    THEN Panic(m)
    ELSE IF ~feats.instancing /\ num_instances # 1
    THEN m
    ELSE LET pip == pls[Unwrap(m.cache.cur_pipeline) + 1]
             primitive_type == gl_primitive_type(pip.params.primitive_type)
         IN  IF ~IsSome(m.cache.index_type)
             THEN Panic(m)
             ELSE LET index_type == Unwrap(m.cache.index_type)
                  IN  IF feats.instancing
                      THEN Call(m, "glDrawElementsInstanced",
                                <<primitive_type, num_elements, gl_index_type(index_type),
                                  base_element, num_instances>>)
                      ELSE Call(m, "glDrawElements",
                                <<primitive_type, num_elements, gl_index_type(index_type),
                                  base_element>>)

\* GraphicsContext::draw(base_element, num_elements, num_instances)
draw(m, pls, feats, base_element, num_elements, num_instances) ==
    IF ~IsSome(m.cache.cur_pipeline)
    THEN Panic(m)
    ELSE IF ~feats.instancing /\ num_instances # 1
    THEN m
    ELSE LET pip == pls[Unwrap(m.cache.cur_pipeline) + 1]
             primitive_type == gl_primitive_type(pip.params.primitive_type)
         IN  IF ~IsSome(m.cache.index_type)
             THEN Panic(m)
             ELSE LET index_type == Unwrap(m.cache.index_type)
                  IN  IF feats.instancing
                      THEN Call(m, "glDrawElementsInstanced",
                                <<primitive_type, num_elements, gl_index_type(index_type),
                                  index_type_size(index_type) * base_element, num_instances>>)
                      ELSE Call(m, "glDrawElements",
                                <<primitive_type, num_elements, gl_index_type(index_type),
                                  index_type_size(index_type) * base_element>>)

\* ------------------------------------------------------------ ElapsedQuery
\* The driver's GL_TIME_ELAPSED query: glBeginQuery starts it unless one is active,
\* glEndQuery ends the active one and leaves its result pending until the driver is done.
glGenQueries(m) ==
    Call([m EXCEPT !.gl.timer.names = @ \cup {GenName(m.gl.timer.names)}],
         "glGenQueries", <<GenName(m.gl.timer.names)>>)

glBeginQuery(m, id) ==
    Call(IF m.gl.timer.active THEN m
         ELSE [m EXCEPT !.gl.timer.active = TRUE, !.gl.timer.result = "none"],
         "glBeginQuery", <<"GL_TIME_ELAPSED", id>>)

glEndQuery(m) ==
    Call(IF m.gl.timer.active
         THEN [m EXCEPT !.gl.timer.active = FALSE, !.gl.timer.result = "pending"]
         ELSE m,
         "glEndQuery", <<"GL_TIME_ELAPSED">>)

\* ElapsedQuery::begin_query: the query object it leaves, and the context
begin_query_self(m, self) ==
    IF self.gl_query = 0 THEN [self EXCEPT !.gl_query = GenName(m.gl.timer.names)] ELSE self

begin_query(m, self) ==
    glBeginQuery(IF self.gl_query = 0 THEN glGenQueries(m) ELSE m,
                 begin_query_self(m, self).gl_query)

\* ElapsedQuery::end_query
end_query(m, self) == glEndQuery(m)

\* ElapsedQuery::get_result, ElapsedQuery::is_available: the values they return
get_result(m, self) == 0

is_available(m, self) == FALSE

\* ------------------------------------------------------------- bookkeeping
\* The machine an operation starts from: the current state, no call issued yet.
Cur == [cache |-> cache, gl |-> gl, calls |-> << >>, fatal |-> fatal]

Op(name, args) == [op |-> name, args |-> args]

MonIdle ==
    [phase |-> "idle", kind |-> "none", slot |-> 0, b |-> 0, g |-> 0, bt |-> None, x |-> 0]

KindOf(target) == IF target = GL_ARRAY_BUFFER THEN "vertex" ELSE "index"

\* binding of a target in the cache, and in the driver
CacheBinding(c, kind, slot) ==
    CASE kind = "vertex" -> c.vertex_buffer
      [] kind = "index" -> c.index_buffer
      [] OTHER -> c.textures[slot]

GlBinding(g, kind, slot) ==
    CASE kind = "vertex" -> g.array_buffer
      [] kind = "index" -> g.element_array_buffer
      [] OTHER -> g.textures[slot]

\* store: a sequence starts; b, g and bt are the cached binding, the driver binding
\* and the cached index element type the store saw
MonStore(kind, slot) ==
    [phase |-> "stored", kind |-> kind, slot |-> slot,
     b |-> CacheBinding(cache, kind, slot),
     g |-> GlBinding(gl, kind, slot),
     bt |-> IF kind = "index" THEN cache.index_type ELSE None, x |-> 0]

\* bind(X) right after the store of the same target, X other than the stored value
MonBind(kind, slot, x) ==
    IF mon.phase = "stored" /\ mon.kind = kind /\ mon.slot = slot /\ x # mon.b
    THEN [mon EXCEPT !.phase = "bound", !.x = x]
    ELSE MonIdle

\* restore of the same target right after the store, or right after the bind
MonRestore(kind, slot) ==
    IF mon.kind = kind /\ mon.slot = slot /\ mon.phase = "bound"
    THEN [mon EXCEPT !.phase = "restored"]
    ELSE IF mon.kind = kind /\ mon.slot = slot /\ mon.phase = "stored"
         THEN [mon EXCEPT !.phase = "restored_direct"]
         ELSE MonIdle

\* An operation returns: the machine it leaves becomes the state.
Return(m, op, mn) ==
    /\ cache' = m.cache
    /\ gl' = m.gl
    /\ calls' = m.calls
    /\ fatal' = m.fatal
    /\ last' = op
    /\ repeat' = (last.op = op.op /\ last.args = op.args)
    /\ mon' = mn

\* ------------------------------------------------------------------- Init
Init ==
    /\ cache = CacheInit
    /\ gl = GlInit
    /\ calls = << >>
    /\ fatal = FALSE
    /\ last = Op("new", << >>)
    /\ repeat = FALSE
    /\ mon = MonIdle
    /\ \E is_gles2 \in BOOLEAN : features = from_gles2(is_gles2)
    /\ window = None
    /\ default_framebuffer = GlInit.framebuffer
    /\ shaders = << >>
    /\ pipelines = << >>
    /\ passes = << >>
    /\ buffers = << >>
    /\ ref = GlInit.attribs
    /\ query = ElapsedQueryNew

\* --------------------------------------------- the GlCache operations alone
BindBuffer ==
    \E target \in BufferTargets, buffer \in BufIds, index_type \in CallIndexTypes :
        /\ ~fatal
        /\ Return(bind_buffer(Cur, target, buffer, index_type),
                  Op("bind_buffer", <<target, buffer, index_type>>),
                  MonBind(KindOf(target), 0, buffer))
        /\ UNCHANGED context

StoreBufferBinding ==
    \E target \in BufferTargets :
        /\ ~fatal
        /\ Return(store_buffer_binding(Cur, target),
                  Op("store_buffer_binding", <<target>>),
                  MonStore(KindOf(target), 0))
        /\ UNCHANGED context

RestoreBufferBinding ==
    \E target \in BufferTargets :
        /\ ~fatal
        /\ Return(restore_buffer_binding(Cur, target),
                  Op("restore_buffer_binding", <<target>>),
                  MonRestore(KindOf(target), 0))
        /\ UNCHANGED context

BindTexture ==
    \E slot_index \in Slots, texture \in TexIds :
        /\ ~fatal
        /\ Return(bind_texture(Cur, slot_index, texture),
                  Op("bind_texture", <<slot_index, texture>>),
                  MonBind("texture", slot_index, texture))
        /\ UNCHANGED context

StoreTextureBinding ==
    \E slot_index \in Slots :
        /\ ~fatal
        /\ Return(store_texture_binding(Cur, slot_index),
                  Op("store_texture_binding", <<slot_index>>),
                  MonStore("texture", slot_index))
        /\ UNCHANGED context

RestoreTextureBinding ==
    \E slot_index \in Slots :
        /\ ~fatal
        /\ Return(restore_texture_binding(Cur, slot_index),
                  Op("restore_texture_binding", <<slot_index>>),
                  MonRestore("texture", slot_index))
        /\ UNCHANGED context

ClearBufferBindings ==
    /\ ~fatal
    /\ Return(clear_buffer_bindings(Cur), Op("clear_buffer_bindings", << >>), MonIdle)
    /\ UNCHANGED context

ClearTextureBindings ==
    /\ ~fatal
    /\ Return(clear_texture_bindings(Cur), Op("clear_texture_bindings", << >>), MonIdle)
    /\ UNCHANGED context

\* the buffer half of GlCache
NextBufCache ==
    \/ BindBuffer
    \/ StoreBufferBinding
    \/ RestoreBufferBinding
    \/ ClearBufferBindings

\* the cache operations read no feature flag: one feature set covers them
InitCache == Init /\ features = from_gles2(FALSE)

SpecBufCache == InitCache /\ [][NextBufCache]_vars

\* the texture half of GlCache
NextTexCache ==
    \/ BindTexture
    \/ StoreTextureBinding
    \/ RestoreTextureBinding
    \/ ClearTextureBindings

SpecTexCache == InitCache /\ [][NextTexCache]_vars

\* every GlCache operation
NextCache == NextBufCache \/ NextTexCache

SpecCache == InitCache /\ [][NextCache]_vars

\* ------------------------------------------------ the context's operations
\* bounds of the context-level specifications
MaxBuffers == 3
MaxLen == 1
MaxPasses == 2

\* size_of::<T>() of the element types buffers are created and updated with
ElemSizes == {2, 4}

BufferImmutable ==
    \E buffer_type \in BufferType, size_of_t \in ElemSizes, len \in 1..MaxLen :
        /\ ~fatal
        /\ Len(buffers) < MaxBuffers
        /\ Return(immutable_ctx(Cur, buffer_type, size_of_t, len),
                  Op("Buffer::immutable", <<buffer_type, size_of_t, len>>), MonIdle)
        /\ buffers' = IF immutable_ctx(Cur, buffer_type, size_of_t, len).fatal THEN buffers
                      ELSE Append(buffers, immutable_buf(Cur, buffer_type, size_of_t, len))
        /\ UNCHANGED <<query, features, window, default_framebuffer, shaders, pipelines, passes, ref>>

BufferStream ==
    \E buffer_type \in BufferType, size \in {4 * MaxLen} :
        /\ ~fatal
        /\ Len(buffers) < MaxBuffers
        /\ Return(stream_ctx(Cur, buffer_type, size),
                  Op("Buffer::stream", <<buffer_type, size>>), MonIdle)
        /\ buffers' = Append(buffers, stream_buf(Cur, buffer_type, size))
        /\ UNCHANGED <<query, features, window, default_framebuffer, shaders, pipelines, passes, ref>>

BufferIndexStream ==
    \E index_type \in {"Short", "Int"}, size \in {4 * MaxLen} :
        /\ ~fatal
        /\ Len(buffers) < MaxBuffers
        /\ Return(index_stream_ctx(Cur, index_type, size),
                  Op("Buffer::index_stream", <<index_type, size>>), MonIdle)
        /\ buffers' = Append(buffers, index_stream_buf(Cur, index_type, size))
        /\ UNCHANGED <<query, features, window, default_framebuffer, shaders, pipelines, passes, ref>>

BufferUpdate ==
    \E b \in 1..Len(buffers), size_of_t \in ElemSizes, len \in 1..(MaxLen + 1) :
        /\ ~fatal
        /\ Return(update(Cur, buffers[b], size_of_t, len),
                  Op("Buffer::update", <<b, size_of_t, len>>), MonIdle)
        /\ UNCHANGED context

RenderPassNew ==
    \E color_img \in 1..MaxTex, depth_img \in {None} :
        /\ ~fatal
        /\ Len(passes) < MaxPasses
        /\ Return(render_pass_new_ctx(Cur, default_framebuffer, color_img, depth_img),
                  Op("RenderPass::new", <<color_img, depth_img>>), MonIdle)
        /\ passes' = Append(passes, render_pass_new_pass(Cur, color_img, depth_img))
        /\ UNCHANGED <<query, features, window, default_framebuffer, shaders, pipelines, buffers, ref>>

BeginPass ==
    \E pass \in {None} \cup {Some(i) : i \in 0..(Len(passes) - 1)}, action \in PassActions :
        /\ ~fatal
        /\ Return(begin_pass(Cur, default_framebuffer, window, passes, pass, action),
                  Op("begin_pass", <<pass, action>>), MonIdle)
        /\ UNCHANGED context

EndRenderPass ==
    /\ ~fatal
    /\ Return(end_render_pass(Cur, default_framebuffer), Op("end_render_pass", << >>), MonIdle)
    /\ UNCHANGED context

CommitFrame ==
    /\ ~fatal
    /\ Return(commit_frame(Cur), Op("commit_frame", << >>), MonIdle)
    /\ UNCHANGED context


\* ----------------------------------------------------------- the frame loop
\* The scene the frame loop runs on: a context in which one shader, two pipelines, a
\* vertex buffer and an index buffer have been created, by the operations above.
SceneCode ==
    [ vs |-> [nul |-> FALSE, ok |-> TRUE, log |-> 0],
      fs |-> [nul |-> FALSE, ok |-> TRUE, log |-> 0],
      link |-> TRUE, link_log |-> 0,
      attribs |-> ("pos" :> 0 @@ "inst" :> 1 @@ "uv" :> -1),
      uniforms |-> ("tex" :> 0 @@ "mvp" :> 1 @@ "skip" :> -1 @@ "bones" :> 2 @@ "n" :> 3) ]

SceneMeta ==
    [ images |-> <<"tex">>,
      uniforms |-> <<[name |-> "mvp", uniform_type |-> "Mat4", array_count |-> 1]>> ]

SceneBlend == [equation |-> "Add", sfactor |-> "SourceAlpha", dfactor |-> "OneMinusSourceAlpha"]

\* pipeline 0: per-vertex pos in buffer 0, per-instance inst in buffer 1, blending
ScenePipelineA ==
    [ buffer_layout |-> <<BufferLayoutDefault,
                          [stride |-> 0, step_func |-> "PerInstance", step_rate |-> 1]>>,
      attributes |-> << [name |-> "pos", format |-> "Float2", buffer_index |-> 0],
                        [name |-> "inst", format |-> "Float4", buffer_index |-> 1] >>,
      params |-> [PipelineConfDefault EXCEPT !.cull_face = "Back", !.depth_write = TRUE,
                                             !.depth_test = "LessOrEqual",
                                             !.color_blend = Some(SceneBlend)] ]

\* pipeline 1: pos alone, default parameters
ScenePipelineB ==
    [ buffer_layout |-> <<BufferLayoutDefault>>,
      attributes |-> << [name |-> "pos", format |-> "Float3", buffer_index |-> 0] >>,
      params |-> PipelineConfDefault ]

SceneFresh == [cache |-> CacheInit, gl |-> GlInit, calls |-> << >>, fatal |-> FALSE]
SceneShader == load_shader_internal(SceneFresh, SceneCode, SceneMeta)
SceneShaders == <<Unwrap(SceneShader.shader)>>
ScenePipeline(d) ==
    Unwrap(with_params(SceneShader.m.gl, SceneShaders, d.buffer_layout, d.attributes,
                       0, d.params).pipeline)
ScenePipelines == <<ScenePipeline(ScenePipelineA), ScenePipeline(ScenePipelineB)>>
SceneVertex == immutable_ctx(SceneShader.m, "VertexBuffer", 4, 1)
SceneIndex == immutable_ctx(SceneVertex, "IndexBuffer", 2, 1)
SceneBuffers ==
    << immutable_buf(SceneShader.m, "VertexBuffer", 4, 1),
       immutable_buf(SceneVertex, "IndexBuffer", 2, 1) >>

InitScene ==
    /\ cache = SceneIndex.cache
    /\ gl = SceneIndex.gl
    /\ calls = << >>
    /\ fatal = FALSE
    /\ last = Op("new", << >>)
    /\ repeat = FALSE
    /\ mon = MonIdle
    /\ \E is_gles2 \in BOOLEAN : features = from_gles2(is_gles2)
    /\ window = Some("window")
    /\ default_framebuffer = GlInit.framebuffer
    /\ shaders = SceneShaders
    /\ pipelines = ScenePipelines
    /\ passes = << >>
    /\ buffers = SceneBuffers
    /\ ref = GlInit.attribs
    /\ query = ElapsedQueryNew

\* the Bindings a caller can build from the buffers it holds and the textures 1..MaxTex
MaxVertexBuffers == 2
SeqsUpTo(S, n) == UNION {[1..k -> S] : k \in 1..n}
BindingsSet ==
    [ vertex_buffers : SeqsUpTo({buffers[b] : b \in {c \in 1..Len(buffers) :
                                    buffers[c].buffer_type = "VertexBuffer"}}, MaxVertexBuffers),
      index_buffer : {buffers[b] : b \in {c \in 1..Len(buffers) :
                                    buffers[c].buffer_type = "IndexBuffer"}},
      images : {<< >>} \cup {<<t>> : t \in 1..MaxTex} ]

\* the attribute half of apply_bindings as an executor with no cache runs it: every
\* call of every slot is issued again
RECURSIVE RefAttributes(_, _, _, _, _)
RefAttributes(r, pip, feats, bindings, attr_index) ==
    IF attr_index >= MAX_VERTEX_ATTRIBUTES
    THEN r
    ELSE IF attr_index < Len(pip.layout) /\ IsSome(pip.layout[attr_index + 1])
    THEN LET a == Unwrap(pip.layout[attr_index + 1])
         IN  RefAttributes(
                [r EXCEPT ![attr_index] =
                    [ enabled |-> TRUE, size |-> a.size, type |-> a.type_,
                      stride |-> a.stride, offset |-> a.offset,
                      divisor |-> IF feats.instancing THEN a.divisor ELSE @.divisor,
                      buffer |-> bindings.vertex_buffers[a.buffer_index + 1].gl_buf ]],
                pip, feats, bindings, attr_index + 1)
    ELSE RefAttributes([r EXCEPT ![attr_index].enabled = FALSE],
                       pip, feats, bindings, attr_index + 1)

ApplyPipeline ==
    \E pipeline \in 0..(Len(pipelines) - 1) :
        /\ ~fatal
        /\ Return(apply_pipeline(Cur, pipelines, shaders, pipeline),
                  Op("apply_pipeline", <<pipeline>>), MonIdle)
        /\ UNCHANGED context

ApplyBindings ==
    \E bindings \in BindingsSet :
        /\ ~fatal
        /\ Return(apply_bindings(Cur, pipelines, shaders, features, bindings),
                  Op("apply_bindings", <<bindings>>), MonIdle)
        /\ ref' = IF apply_bindings(Cur, pipelines, shaders, features, bindings).fatal
                  THEN ref
                  ELSE RefAttributes(ref, pipelines[Unwrap(cache.cur_pipeline) + 1],
                                     features, bindings, 0)
        /\ UNCHANGED arenas

\* the frame loop: pipelines and bindings are applied, buffers updated, passes created,
\* begun and ended, frames committed
Next ==
    \/ ApplyPipeline
    \/ ApplyBindings
    \/ BufferUpdate
    \/ RenderPassNew
    \/ BeginPass
    \/ EndRenderPass
    \/ CommitFrame

Spec == InitScene /\ [][Next]_vars

\* every operation that binds a buffer or a texture through the cache, on the scene
NextBuffers ==
    \/ ApplyPipeline
    \/ ApplyBindings
    \/ BufferImmutable
    \/ BufferStream
    \/ BufferIndexStream
    \/ BufferUpdate
    \/ BeginPass
    \/ EndRenderPass
    \/ CommitFrame

SpecBuffers == InitScene /\ [][NextBuffers]_vars

\* ------------------------------------------------------- pipeline creation
\* The attribute lists a caller declares: the names below in this order, any of them left
\* out, each with one of the formats and one of the buffer indices. The scene's shader
\* resolves pos and inst; uv is optimized away and tint is no attribute of the program.
MaxLayouts == 2
MaxPipelines == 3
AttributeNames == <<"uv", "pos", "inst", "tint">>
PipeFormats == {"Float2", "Float3", "Mat4"}
LayoutChoices ==
    { BufferLayoutDefault,
      [stride |-> 32, step_func |-> "PerInstance", step_rate |-> 2],
      [stride |-> 256, step_func |-> "PerVertex", step_rate |-> 1] }
Nth(S, n) == CHOOSE x \in S : Cardinality({y \in S : y < x}) = n - 1

\* Pipeline::with_params on the context: the pipeline is pushed, or the call panics
PipelineWithParams ==
    /\ ~fatal
    /\ Len(pipelines) < MaxPipelines
    /\ \E shader \in 0..(Len(shaders) - 1),
       buffer_layout \in SeqsUpTo(LayoutChoices, MaxLayouts),
       S \in (SUBSET (1..Len(AttributeNames))) \ {{}} :
        \E f \in [1..Cardinality(S) -> PipeFormats],
           b \in [1..Cardinality(S) -> 0..(MaxLayouts - 1)] :
            LET attributes == [n \in 1..Cardinality(S) |->
                                [ name |-> AttributeNames[Nth(S, n)], format |-> f[n],
                                  buffer_index |-> b[n] ]]
                r == with_params(gl, shaders, buffer_layout, attributes, shader,
                                 PipelineConfDefault)
            IN  /\ Return(IF r.bad THEN Panic(Cur) ELSE Cur,
                          Op("Pipeline::with_params", <<buffer_layout, attributes, shader>>),
                          MonIdle)
                /\ pipelines' = IF r.bad THEN pipelines ELSE Append(pipelines, Unwrap(r.pipeline))
                /\ UNCHANGED <<query, features, window, default_framebuffer, shaders, passes,
                               buffers, ref>>

\* pipeline creation reads no feature flag: one feature set covers it
InitPipeline == InitScene /\ features = from_gles2(FALSE)

NextPipeline == PipelineWithParams

SpecPipeline == InitPipeline /\ [][NextPipeline]_vars

\* ------------------------------------------------------------- uniforms
\* The uniform schemas a shader declares: up to MaxUniforms slots out of the choices below;
\* the program resolves mvp, bones and n and has optimized skip away. The blob sizes are
\* those of the structs a caller hands to apply_uniforms.
MaxUniforms == 2
UniformChoices ==
    { [name |-> "mvp", uniform_type |-> "Mat4", array_count |-> 1],
      [name |-> "skip", uniform_type |-> "Float2", array_count |-> 2],
      [name |-> "bones", uniform_type |-> "Float4", array_count |-> 2],
      [name |-> "n", uniform_type |-> "Int1", array_count |-> 3] }
UniformSchemas == {<< >>} \cup SeqsUpTo(UniformChoices, MaxUniforms)
BlobSizes == {0, 4, 12, 16, 28, 32, 64, 76, 80, 96, 128}

UniformsShader(schema) ==
    load_shader_internal(SceneFresh, SceneCode, [images |-> <<"tex">>, uniforms |-> schema])

\* a context on which a shader with one of the schemas and a pipeline of it were created
InitUniforms ==
    \E schema \in UniformSchemas :
        /\ cache = UniformsShader(schema).m.cache
        /\ gl = UniformsShader(schema).m.gl
        /\ calls = << >>
        /\ fatal = FALSE
        /\ last = Op("new", << >>)
        /\ repeat = FALSE
        /\ mon = MonIdle
        /\ features = from_gles2(FALSE)
        /\ window = Some("window")
        /\ default_framebuffer = GlInit.framebuffer
        /\ shaders = <<Unwrap(UniformsShader(schema).shader)>>
        /\ pipelines = << Unwrap(with_params(UniformsShader(schema).m.gl, shaders,
                                             ScenePipelineB.buffer_layout,
                                             ScenePipelineB.attributes, 0,
                                             ScenePipelineB.params).pipeline) >>
        /\ passes = << >>
        /\ buffers = << >>
        /\ ref = GlInit.attribs
    /\ query = ElapsedQueryNew

ApplyUniforms ==
    \E size \in BlobSizes, overflow_checks \in BOOLEAN :
        /\ ~fatal
        /\ Return(apply_uniforms_from_bytes(Cur, pipelines, shaders, size, overflow_checks),
                  Op("apply_uniforms", <<size, overflow_checks>>), MonIdle)
        /\ UNCHANGED context

NextUniforms ==
    \/ ApplyPipeline
    \/ ApplyUniforms

SpecUniforms == InitUniforms /\ [][NextUniforms]_vars

\* ----------------------------------------------------------------- draw
\* draw on the scene: before and after a pipeline and Bindings are applied, after a
\* commit_frame, with index buffers of two element widths
MaxBase == 2
MaxInstances == 2
DrawCounts == {3, 6}

Draw ==
    \E base_element \in 0..MaxBase, num_elements \in DrawCounts,
       num_instances \in 0..MaxInstances :
        /\ ~fatal
        /\ Return(draw(Cur, pipelines, features, base_element, num_elements, num_instances),
                  Op("draw", <<base_element, num_elements, num_instances>>), MonIdle)
        /\ UNCHANGED context

NextDraw ==
    \/ ApplyPipeline
    \/ ApplyBindings
    \/ BufferImmutable
    \/ Draw
    \/ EndRenderPass
    \/ CommitFrame

SpecDraw == InitScene /\ [][NextDraw]_vars

\* ------------------------------------------------------------ Shader::new
\* The sources a caller hands to Shader::new and what the driver makes of them: a source
\* may hold a NUL, compile or fail, and a failure comes with an info log of `log` bytes
\* (the length glGetShaderInfoLog reports), none included; likewise the link.
MaxPrograms == 3
SourceChoices ==
    { [nul |-> FALSE, ok |-> TRUE, log |-> 0],
      [nul |-> TRUE, ok |-> TRUE, log |-> 0],
      [nul |-> FALSE, ok |-> FALSE, log |-> 2],
      [nul |-> FALSE, ok |-> FALSE, log |-> 0] }
ShaderCodes ==
    { [SceneCode EXCEPT !.vs = v, !.fs = f, !.link = l, !.link_log = g] :
        v \in SourceChoices, f \in SourceChoices, l \in BOOLEAN, g \in {0, 2} }

ShaderNew ==
    /\ ~fatal
    /\ Len(gl.programs) < MaxPrograms
    /\ \E code \in ShaderCodes :
        LET r == load_shader_internal(Cur, code, SceneMeta)
        IN  /\ Return(r.m, Op("Shader::new", <<code, r.res>>), MonIdle)
            /\ shaders' = IF IsSome(r.shader) /\ ~r.m.fatal
                          THEN Append(shaders, Unwrap(r.shader))
                          ELSE shaders
            /\ UNCHANGED <<query, features, window, default_framebuffer, pipelines, passes, buffers,
                           ref>>

NextShader ==
    \/ ShaderNew
    \/ ApplyPipeline

SpecShader == InitScene /\ [][NextShader]_vars

\* ------------------------------------------------------- the elapsed query
\* A caller that measures with one ElapsedQuery and polls it once in a while, frame after
\* frame; the driver finishes a pending query in its own time, with one of Durations.
\* The polls are recorded with what they return: <<"available", b>>, <<"nanoseconds", n>>.
Durations == {3, 7}

BeginQuery ==
    /\ ~fatal
    /\ Return(begin_query(Cur, query), Op("ElapsedQuery::begin_query", << >>), MonIdle)
    /\ query' = begin_query_self(Cur, query)
    /\ UNCHANGED <<features, window, default_framebuffer, shaders, pipelines, passes, buffers,
                   ref>>

EndQuery ==
    /\ ~fatal
    /\ Return(end_query(Cur, query), Op("ElapsedQuery::end_query", << >>), MonIdle)
    /\ UNCHANGED context

QueryCompletes ==
    /\ gl.timer.result = "pending"
    /\ \E d \in Durations :
          gl' = [gl EXCEPT !.timer.result = "ready", !.timer.elapsed = d]
    /\ UNCHANGED <<cache, calls, fatal, last, repeat, mon, context>>

IsAvailable ==
    /\ ~fatal
    /\ Return(Cur, Op("ElapsedQuery::is_available", <<"available", is_available(Cur, query)>>), MonIdle)
    /\ UNCHANGED context

GetResult ==
    /\ ~fatal
    /\ Return(Cur, Op("ElapsedQuery::get_result", <<"nanoseconds", get_result(Cur, query)>>), MonIdle)
    /\ UNCHANGED context

NextQuery ==
    \/ BeginQuery
    \/ EndQuery
    \/ QueryCompletes
    \/ IsAvailable
    \/ GetResult
    \/ ApplyPipeline
    \/ CommitFrame

\* the caller keeps polling and keeps committing frames, and the driver finishes its work;
\* a step counts when it changes the operation, the driver or the cache
progress == <<last.op, repeat, cache, gl, calls, fatal>>

SpecQuery ==
    /\ InitScene
    /\ [][NextQuery]_vars
    /\ WF_progress(IsAvailable)
    /\ WF_progress(CommitFrame)
    /\ WF_progress(QueryCompletes)

\* ------------------------------------------------- nested store / restore
\* A caller that runs, on one buffer target, bind(B0), store, bind(A), store, bind(B),
\* restore, restore: what an operation that stores and restores does when it is called
\* from within another one. mon keeps the position in the sequence and B0, A and B.
NestMon(phase, kind, b0, a, b) ==
    [phase |-> phase, kind |-> kind, slot |-> 0, b |-> b0, g |-> b, bt |-> None, x |-> a]

NestBind ==
    \E target \in BufferTargets, buffer \in BufIds, index_type \in CallIndexTypes :
        /\ ~fatal
        /\ \/ mon.phase = "idle"
           \/ mon.phase = "stored_1" /\ mon.kind = KindOf(target) /\ buffer # 0
           \/ mon.phase = "stored_2" /\ mon.kind = KindOf(target)
        /\ Return(bind_buffer(Cur, target, buffer, index_type),
                  Op("bind_buffer", <<target, buffer, index_type>>),
                  CASE mon.phase = "idle" ->
                           NestMon("bound_0", KindOf(target), buffer, 0, 0)
                    [] mon.phase = "stored_1" ->
                           NestMon("bound_1", mon.kind, mon.b, buffer, 0)
                    [] mon.phase = "stored_2" ->
                           NestMon("bound_2", mon.kind, mon.b, mon.x, buffer))
        /\ UNCHANGED context

NestStore ==
    \E target \in BufferTargets :
        /\ ~fatal
        /\ mon.phase \in {"bound_0", "bound_1"}
        /\ mon.kind = KindOf(target)
        /\ Return(store_buffer_binding(Cur, target),
                  Op("store_buffer_binding", <<target>>),
                  [mon EXCEPT !.phase = IF mon.phase = "bound_0" THEN "stored_1"
                                        ELSE "stored_2"])
        /\ UNCHANGED context

NestRestore ==
    \E target \in BufferTargets :
        /\ ~fatal
        /\ mon.phase \in {"bound_2", "restored_1"}
        /\ mon.kind = KindOf(target)
        /\ Return(restore_buffer_binding(Cur, target),
                  Op("restore_buffer_binding", <<target>>),
                  [mon EXCEPT !.phase = IF mon.phase = "bound_2" THEN "restored_1"
                                        ELSE "restored_2"])
        /\ UNCHANGED context

NextNest ==
    \/ NestBind
    \/ NestStore
    \/ NestRestore

SpecNest == InitCache /\ [][NextNest]_vars

\* ------------------------------------------------------------- blending
\* The blend states a caller sets: none, the scene's alpha blending, an additive one.
BlendChoices ==
    { None, Some(SceneBlend),
      Some([equation |-> "Add", sfactor |-> "One", dfactor |-> "One"]) }

SetBlend ==
    \E color_blend \in BlendChoices, alpha_blend \in BlendChoices :
        /\ ~fatal
        /\ Return(set_blend(Cur, color_blend, alpha_blend),
                  Op("set_blend", <<color_blend, alpha_blend>>), MonIdle)
        /\ UNCHANGED context

NextBlend ==
    \/ SetBlend
    \/ ApplyPipeline

SpecBlend == InitScene /\ [][NextBlend]_vars

\* ------------------------------------------------------- buffer destruction
\* a buffer the caller holds goes out of scope
BufferDrop ==
    \E b \in 1..Len(buffers) :
        /\ ~fatal
        /\ Return(buffer_drop(Cur, buffers[b]), Op("Buffer::drop", <<buffers[b].gl_buf>>),
                  MonIdle)
        /\ buffers' = [i \in 1..(Len(buffers) - 1) |->
                          IF i < b THEN buffers[i] ELSE buffers[i + 1]]
        /\ UNCHANGED <<query, features, window, default_framebuffer, shaders, pipelines,
                       passes, ref>>

NextDrop ==
    \/ ApplyPipeline
    \/ ApplyBindings
    \/ BufferDrop

SpecDrop == InitScene /\ [][NextDrop]_vars

\* ------------------------------------------------------ pipeline blending
\* Pipeline::with_params with the scene's first layout and any blend states in its params
PipelineWithBlend ==
    /\ ~fatal
    /\ Len(pipelines) < MaxPipelines
    /\ \E color_blend \in BlendChoices, alpha_blend \in BlendChoices :
        LET params == [PipelineConfDefault EXCEPT !.color_blend = color_blend,
                                                  !.alpha_blend = alpha_blend]
            r == with_params(gl, shaders, ScenePipelineA.buffer_layout,
                             ScenePipelineA.attributes, 0, params)
        IN  /\ Return(IF r.bad THEN Panic(Cur) ELSE Cur,
                      Op("Pipeline::with_params", <<color_blend, alpha_blend>>), MonIdle)
            /\ pipelines' = IF r.bad THEN pipelines ELSE Append(pipelines, Unwrap(r.pipeline))
            /\ UNCHANGED <<query, features, window, default_framebuffer, shaders, passes,
                           buffers, ref>>

PipelineSetBlend ==
    \E self \in 0..(Len(pipelines) - 1), color_blend \in BlendChoices :
        /\ ~fatal
        /\ Return(Cur, Op("Pipeline::set_blend", <<self, color_blend>>), MonIdle)
        /\ pipelines' = pipeline_set_blend(pipelines, self, color_blend)
        /\ UNCHANGED <<query, features, window, default_framebuffer, shaders, passes,
                       buffers, ref>>

NextPipeBlend ==
    \/ PipelineWithBlend
    \/ PipelineSetBlend
    \/ ApplyPipeline

SpecPipeBlend == InitScene /\ [][NextPipeBlend]_vars

\* ------------------------------------------------------- shader images
\* Shaders whose meta names up to MaxImages images: all resolve but, in some, the last,
\* which the program does not use.
MaxImages == 13
ImageCounts == {1, MaxImages - 1, MaxImages}
ImageMetas ==
    { [n \in 1..k |-> IF n = k THEN name ELSE "tex"] : k \in ImageCounts, name \in {"tex", "skip"} }

ImagesShader(images) ==
    load_shader_internal(SceneFresh, SceneCode, [images |-> images, uniforms |-> << >>])
ImagesVertex(images) == immutable_ctx(ImagesShader(images).m, "VertexBuffer", 4, 1)
ImagesIndex(images) == immutable_ctx(ImagesVertex(images), "IndexBuffer", 2, 1)

\* a context on which a shader with one of the image lists, a pipeline of it, a vertex
\* buffer and an index buffer were created
InitImages ==
    \E images \in ImageMetas :
        /\ cache = ImagesIndex(images).cache
        /\ gl = ImagesIndex(images).gl
        /\ calls = << >>
        /\ fatal = FALSE
        /\ last = Op("new", << >>)
        /\ repeat = FALSE
        /\ mon = MonIdle
        /\ features = from_gles2(FALSE)
        /\ window = Some("window")
        /\ default_framebuffer = GlInit.framebuffer
        /\ shaders = <<Unwrap(ImagesShader(images).shader)>>
        /\ pipelines = << Unwrap(with_params(ImagesShader(images).m.gl, shaders,
                                             ScenePipelineB.buffer_layout,
                                             ScenePipelineB.attributes, 0,
                                             ScenePipelineB.params).pipeline) >>
        /\ passes = << >>
        /\ buffers = << immutable_buf(ImagesShader(images).m, "VertexBuffer", 4, 1),
                        immutable_buf(ImagesVertex(images), "IndexBuffer", 2, 1) >>
        /\ ref = GlInit.attribs
        /\ query = ElapsedQueryNew

\* apply_bindings with the context's buffers and a list of textures of one of the lengths
ApplyBindingsImages ==
    \E k \in ImageCounts, t \in 1..MaxTex, u \in 1..MaxTex :
        LET bindings == [ vertex_buffers |-> <<buffers[1]>>,
                          index_buffer |-> buffers[2],
                          images |-> [n \in 1..k |-> IF n % 2 = 1 THEN t ELSE u] ]
        IN  /\ ~fatal
            /\ Return(apply_bindings(Cur, pipelines, shaders, features, bindings),
                      Op("apply_bindings", <<bindings>>), MonIdle)
            /\ ref' = IF apply_bindings(Cur, pipelines, shaders, features, bindings).fatal
                      THEN ref
                      ELSE RefAttributes(ref, pipelines[Unwrap(cache.cur_pipeline) + 1],
                                         features, bindings, 0)
            /\ UNCHANGED arenas

NextImages ==
    \/ ApplyPipeline
    \/ ApplyBindingsImages
    \/ CommitFrame

SpecImages == InitImages /\ [][NextImages]_vars

\* ================================================================== claims
\* C1: whatever binding operations have run, the cached vertex buffer, index buffer and
\* texture of each of the MAX_SHADERSTAGE_IMAGES slots are the ones bound in the driver.
C1_CacheMatchesDriver ==
    /\ cache.vertex_buffer = gl.array_buffer
    /\ cache.index_buffer = gl.element_array_buffer
    /\ \A i \in 0..(MAX_SHADERSTAGE_IMAGES - 1) : cache.textures[i] = gl.textures[i]

CallNames == {calls[i].f : i \in 1..Len(calls)}

\* C2: after bind_buffer(target, buffer, index_type) the cached binding and the driver
\* binding of that target are `buffer`, and when the call repeats the call before it,
\* argument for argument, it issues no driver call.
C2_BindBufferIdempotent ==
    (last.op = "bind_buffer" /\ ~fatal) =>
        /\ CacheBinding(cache, KindOf(last.args[1]), 0) = last.args[2]
        /\ GlBinding(gl, KindOf(last.args[1]), 0) = last.args[2]
        /\ (repeat => calls = << >>)

C2_Witness ==
    /\ last.op = "bind_buffer"
    /\ repeat
    /\ last.args[1] = GL_ELEMENT_ARRAY_BUFFER
    /\ last.args[2] # 0
    /\ IsSome(last.args[3])

\* C3 (as claimed): the second of two consecutive bind_texture calls with the same slot
\* and texture issues no driver call of any kind and leaves the slot's binding as it was.
C3_BindTextureIdempotent ==
    (last.op = "bind_texture" /\ repeat) =>
        /\ calls = << >>
        /\ cache.textures[last.args[1]] = last.args[2]
        /\ gl.textures[last.args[1]] = last.args[2]

\* C5 (as claimed): store, bind(X) with X other than the binding B the store saw, restore
\* on a buffer target leaves the cached and the driver binding B, not X, and on the index
\* target the cached index element type is the one the store saw; B = 0 included.
C5_StoreBindRestoreBuffer ==
    (mon.phase = "restored" /\ mon.kind \in {"vertex", "index"}) =>
        /\ CacheBinding(cache, mon.kind, 0) = mon.b
        /\ GlBinding(gl, mon.kind, 0) = mon.g
        /\ CacheBinding(cache, mon.kind, 0) # mon.x
        /\ (mon.kind = "index" => cache.index_type = mon.bt)

\* C6: store_texture_binding(s), bind_texture(s, X) with X other than the binding T the
\* store saw, restore_texture_binding(s) leaves the cached and the driver binding of
\* slot s equal to T, not X; T = 0 included.
C6_StoreBindRestoreTexture ==
    (mon.phase = "restored" /\ mon.kind = "texture") =>
        /\ cache.textures[mon.slot] = mon.b
        /\ gl.textures[mon.slot] = mon.g
        /\ cache.textures[mon.slot] # mon.x
        /\ gl.textures[mon.slot] # mon.x

C6_Witness ==
    /\ mon.phase = "restored"
    /\ mon.kind = "texture"
    /\ mon.b = 0
    /\ mon.slot = 1

\* C7: a store immediately followed by the restore of the same target leaves the cached
\* binding, the cached index element type and the driver binding as the store saw them,
\* and the restore issues no driver bind call.
C7_StoreRestoreUnchanged ==
    mon.phase = "restored_direct" =>
        /\ CacheBinding(cache, mon.kind, mon.slot) = mon.b
        /\ GlBinding(gl, mon.kind, mon.slot) = mon.g
        /\ (mon.kind = "index" => cache.index_type = mon.bt)
        /\ CallNames \cap {"glBindBuffer", "glBindTexture"} = {}

C7_Witness ==
    /\ mon.phase = "restored_direct"
    /\ mon.kind = "index"
    /\ mon.b # 0
    /\ IsSome(mon.bt)

C1_Witness ==
    /\ last.op \in {"Buffer::immutable", "Buffer::stream", "Buffer::index_stream", "Buffer::update"}
    /\ ~fatal
    /\ cache.vertex_buffer # 0
    /\ cache.index_buffer # 0
    /\ cache.textures[0] # 0
    /\ "glBindBuffer" \in CallNames

\* C4 (as claimed): apply_pipeline called again with the Pipeline of the call before it
\* leaves the driver state of the first call and issues no driver call.
C4_ApplyPipelineIdempotent ==
    [][ (/\ last.op = "apply_pipeline"
         /\ last'.op = "apply_pipeline"
         /\ last'.args = last.args
         /\ ~fatal')
        => (gl' = gl /\ calls' = << >>) ]_vars

BufferOps == {"Buffer::immutable", "Buffer::stream", "Buffer::index_stream", "Buffer::update"}

\* C8 (as claimed): Buffer::immutable, Buffer::stream, Buffer::index_stream and
\* Buffer::update leave the cached vertex buffer, index buffer and index element type as
\* they were before the call, nothing bound included.
C8_BufferOpsKeepBindings ==
    [][ (last'.op \in BufferOps /\ ~fatal')
        => (/\ cache'.vertex_buffer = cache.vertex_buffer
            /\ cache'.index_buffer = cache.index_buffer
            /\ cache'.index_type = cache.index_type) ]_vars

\* C9: when commit_frame returns, the vertex buffer, the index buffer and the texture of
\* every one of the MAX_SHADERSTAGE_IMAGES slots are 0 in the cache and in the driver and
\* no index element type is cached; begin_pass, end_render_pass and commit_frame never
\* end in a fatal error.
C9_CommitFrameClears ==
    /\ (last.op \in {"begin_pass", "end_render_pass", "commit_frame"} => ~fatal)
    /\ (last.op = "commit_frame" =>
            /\ cache.vertex_buffer = 0 /\ gl.array_buffer = 0
            /\ cache.index_buffer = 0 /\ gl.element_array_buffer = 0
            /\ cache.index_type = None
            /\ \A i \in 0..(MAX_SHADERSTAGE_IMAGES - 1) :
                    cache.textures[i] = 0 /\ gl.textures[i] = 0)

C9_Witness ==
    /\ last.op = "commit_frame"
    /\ "glBindTexture" \in CallNames
    /\ "glBindBuffer" \in CallNames
    /\ gl.framebuffer # default_framebuffer

\* the entry of the active pipeline's table at a slot, None past the table's end
ActiveEntry(slot) ==
    LET layout == pipelines[Unwrap(cache.cur_pipeline) + 1].layout
    IN  IF slot < Len(layout) THEN layout[slot + 1] ELSE None

\* a slot of the driver is set up as the active pipeline's entry asks, the divisor aside
SlotAsEntry(slot) ==
    LET a == Unwrap(ActiveEntry(slot))
        bindings == last.args[1]
    IN  /\ gl.attribs[slot].enabled
        /\ gl.attribs[slot].size = a.size
        /\ gl.attribs[slot].type = a.type_
        /\ gl.attribs[slot].stride = a.stride
        /\ gl.attribs[slot].offset = a.offset
        /\ gl.attribs[slot].buffer = bindings.vertex_buffers[a.buffer_index + 1].gl_buf

\* C10: after apply_bindings the driver's vertex attribute arrays are those an executor
\* that re-issues every attribute call would leave: a slot with an entry in the active
\* pipeline's table is enabled with the entry's component count, type, stride and offset,
\* sources the Bindings vertex buffer at the entry's buffer_index and, on a context with
\* instancing, has the entry's divisor; every other slot is disabled.
C10_AttributesAsUncached ==
    (last.op = "apply_bindings" /\ ~fatal) =>
        /\ gl.attribs = ref
        /\ \A slot \in 0..(MAX_VERTEX_ATTRIBUTES - 1) :
              IF IsSome(ActiveEntry(slot))
              THEN /\ SlotAsEntry(slot)
                   /\ features.instancing =>
                        gl.attribs[slot].divisor = Unwrap(ActiveEntry(slot)).divisor
              ELSE ~gl.attribs[slot].enabled

\* C10 (as claimed): the same with the entry's divisor on every context
C10_AttributesWithDivisor ==
    (last.op = "apply_bindings" /\ ~fatal) =>
        /\ gl.attribs = ref
        /\ \A slot \in 0..(MAX_VERTEX_ATTRIBUTES - 1) :
              IF IsSome(ActiveEntry(slot))
              THEN /\ SlotAsEntry(slot)
                   /\ gl.attribs[slot].divisor = Unwrap(ActiveEntry(slot)).divisor
              ELSE ~gl.attribs[slot].enabled

C10_Witness ==
    /\ last.op = "apply_bindings"
    /\ ~fatal
    /\ features.instancing
    /\ cache.cur_pipeline = Some(0)
    /\ gl.attribs[1].enabled
    /\ gl.attribs[0].buffer # gl.attribs[1].buffer
    /\ "glVertexAttribPointer" \notin CallNames

\* ------------------------------------------------ claims on pipeline creation
\* what the last Pipeline::with_params was given and, when it returned, what it pushed
NewLayouts == last.args[1]
NewAttributes == last.args[2]
NewPipeline == pipelines[Len(pipelines)]
Creating == last.op = "Pipeline::with_params"
Created == Creating /\ ~fatal
AttrLocation(i) ==
    glGetAttribLocation(gl, shaders[last.args[3] + 1].program, NewAttributes[i].name)
Resolved(i) == AttrLocation(i) # -1
EntryCount(i) == IF NewAttributes[i].format = "Mat4" THEN 4 ELSE 1
SameBuffer(i, j) == NewAttributes[i].buffer_index = NewAttributes[j].buffer_index

\* the byte lengths of the attributes declared before the i-th in buffer b, summed
RECURSIVE BytesBefore(_, _, _)
BytesBefore(attributes, i, b) ==
    IF i <= 1 THEN 0
    ELSE BytesBefore(attributes, i - 1, b)
         + (IF attributes[i - 1].buffer_index = b THEN byte_len(attributes[i - 1].format) ELSE 0)

\* the stride of buffer b: the declared one, or all byte lengths of its attributes
BufferStride(b) ==
    IF NewLayouts[b + 1].stride # 0
    THEN NewLayouts[b + 1].stride
    ELSE BytesBefore(NewAttributes, Len(NewAttributes) + 1, b)

IndicesOk == \A i \in 1..Len(NewAttributes) : NewAttributes[i].buffer_index < Len(NewLayouts)

\* a later attribute resolves to the location of the k-th entry of the i-th and takes it
Overwritten(i, k) ==
    \E j \in (i + 1)..Len(NewAttributes) :
        /\ Resolved(j)
        /\ AttrLocation(i) + k >= AttrLocation(j)
        /\ AttrLocation(i) + k < AttrLocation(j) + EntryCount(j)

EntryOf(i, k) == NewPipeline.layout[AttrLocation(i) + k + 1]

\* C11: a created pipeline gives the entry of each attribute the stride of its buffer (the
\* declared stride when not 0, else the byte lengths of all attributes of that buffer,
\* summed) and the offset that sums the byte lengths of the attributes declared before it
\* in the same buffer; stride 0 with [Float3, Float2] gives stride 20 and offsets 0 and 12.
C11_StridesAndOffsets ==
    Created =>
        /\ \A i \in 1..Len(NewAttributes) :
              (Resolved(i) /\ ~Overwritten(i, 0)) =>
                  /\ IsSome(EntryOf(i, 0))
                  /\ Unwrap(EntryOf(i, 0)).buffer_index = NewAttributes[i].buffer_index
                  /\ Unwrap(EntryOf(i, 0)).stride = BufferStride(NewAttributes[i].buffer_index)
                  /\ Unwrap(EntryOf(i, 0)).offset =
                        BytesBefore(NewAttributes, i, NewAttributes[i].buffer_index)
        /\ (/\ NewAttributes = << [name |-> "pos", format |-> "Float3", buffer_index |-> 0],
                                 [name |-> "inst", format |-> "Float2", buffer_index |-> 0] >>
            /\ NewLayouts[1].stride = 0)
           => /\ Unwrap(NewPipeline.layout[1]).stride = 20
              /\ Unwrap(NewPipeline.layout[2]).stride = 20
              /\ Unwrap(NewPipeline.layout[1]).offset = 0
              /\ Unwrap(NewPipeline.layout[2]).offset = 12

C11_Witness ==
    /\ Created
    /\ NewAttributes = << [name |-> "pos", format |-> "Float3", buffer_index |-> 0],
                          [name |-> "inst", format |-> "Float2", buffer_index |-> 0] >>
    /\ NewLayouts = <<BufferLayoutDefault>>

\* C12: in a created pipeline a Mat4 attribute resolved to location L has the entries
\* L, L+1, L+2, L+3, each of 4 float components, at the offsets base, base+16, base+32,
\* base+48, and the next attribute of its buffer starts at base+64; alone in its buffer
\* and list it makes a table of exactly these 4 entries at 0, 16, 32, 48.
C12_Mat4FourEntries ==
    Created =>
        \A i \in 1..Len(NewAttributes) :
            (NewAttributes[i].format = "Mat4" /\ Resolved(i)) =>
                LET base == BytesBefore(NewAttributes, i, NewAttributes[i].buffer_index)
                IN  /\ \A k \in 0..3 :
                          ~Overwritten(i, k) =>
                              /\ IsSome(EntryOf(i, k))
                              /\ Unwrap(EntryOf(i, k)).attr_loc = AttrLocation(i) + k
                              /\ Unwrap(EntryOf(i, k)).size = 4
                              /\ Unwrap(EntryOf(i, k)).type_ = "GL_FLOAT"
                              /\ Unwrap(EntryOf(i, k)).offset = base + 16 * k
                    /\ \A j \in (i + 1)..Len(NewAttributes) :
                          (/\ SameBuffer(i, j) /\ Resolved(j) /\ ~Overwritten(j, 0)
                           /\ \A h \in (i + 1)..(j - 1) : ~SameBuffer(i, h))
                          => Unwrap(EntryOf(j, 0)).offset = base + 64
                    /\ Len(NewAttributes) = 1 =>
                          /\ Len(NewPipeline.layout) = 4
                          /\ \A k \in 0..3 : Unwrap(EntryOf(i, k)).offset = 16 * k

C12_Witness ==
    /\ Created
    /\ Len(NewAttributes) = 2
    /\ NewAttributes[1].format = "Float3" /\ NewAttributes[1].name = "pos"
    /\ NewAttributes[2].format = "Mat4" /\ NewAttributes[2].name = "inst"
    /\ SameBuffer(1, 2)

\* how many slots of the new table hold an entry, and how many the resolved attributes claim
EntrySlots == {n \in 1..Len(NewPipeline.layout) : IsSome(NewPipeline.layout[n])}
ResolvedSlots ==
    UNION { AttrLocation(i)..(AttrLocation(i) + EntryCount(i) - 1) :
                i \in {h \in 1..Len(NewAttributes) : Resolved(h)} }

\* C13: an attribute whose name resolves to no location gets no table entry and causes no
\* panic, and its byte length still counts in the offsets of the later attributes of its
\* buffer and in the buffer's summed stride.
C13_UnresolvedStillAdvances ==
    /\ (/\ Creating
        /\ IndicesOk
        /\ \A i \in 1..Len(NewAttributes) :
              ~Resolved(i) /\ BufferStride(NewAttributes[i].buffer_index) <= 255)
       => ~fatal
    /\ Created =>
          /\ {n - 1 : n \in EntrySlots} = ResolvedSlots
          /\ \A i \in 1..Len(NewAttributes) :
                ~Resolved(i) =>
                    \A j \in (i + 1)..Len(NewAttributes) :
                        (SameBuffer(i, j) /\ Resolved(j) /\ ~Overwritten(j, 0)) =>
                            /\ Unwrap(EntryOf(j, 0)).offset >=
                                  BytesBefore(NewAttributes, i, NewAttributes[i].buffer_index)
                                  + byte_len(NewAttributes[i].format)
                            /\ Unwrap(EntryOf(j, 0)).offset =
                                  BytesBefore(NewAttributes, j, NewAttributes[j].buffer_index)
                            /\ NewLayouts[NewAttributes[i].buffer_index + 1].stride = 0 =>
                                  Unwrap(EntryOf(j, 0)).stride >=
                                      Unwrap(EntryOf(j, 0)).offset
                                      + byte_len(NewAttributes[j].format)

C13_Witness ==
    /\ Created
    /\ Len(NewAttributes) = 2
    /\ NewAttributes[1].name = "uv" /\ NewAttributes[2].name = "pos"
    /\ SameBuffer(1, 2)
    /\ Unwrap(EntryOf(2, 0)).offset = byte_len(NewAttributes[1].format)

\* C14 (as claimed): the table of a created pipeline has MAX_VERTEX_ATTRIBUTES slots,
\* creation panics exactly when a resolved location, the follow-on locations of a Mat4
\* included, is not below MAX_VERTEX_ATTRIBUTES, and every slot no attribute resolves to
\* is none.
C14_TableOfMaxSlots ==
    (/\ Creating
     /\ IndicesOk
     /\ \A i \in 1..Len(NewAttributes) : BufferStride(NewAttributes[i].buffer_index) <= 255)
    => /\ fatal <=> \E i \in 1..Len(NewAttributes) :
                        Resolved(i) /\ AttrLocation(i) + EntryCount(i) - 1 >= MAX_VERTEX_ATTRIBUTES
       /\ ~fatal =>
            /\ Len(NewPipeline.layout) = MAX_VERTEX_ATTRIBUTES
            /\ \A n \in 1..Len(NewPipeline.layout) :
                  (n - 1) \notin ResolvedSlots => NewPipeline.layout[n] = None

\* C15: creation panics when the stride of a buffer that some attribute is assigned to,
\* declared or summed, is above 255, and no entry of a created pipeline has a stride
\* above 255.
C15_StrideAtMost255 ==
    Creating =>
        /\ (\E i \in 1..Len(NewAttributes) :
                /\ NewAttributes[i].buffer_index < Len(NewLayouts)
                /\ BufferStride(NewAttributes[i].buffer_index) > 255)
           => fatal
        /\ ~fatal => \A n \in EntrySlots : Unwrap(NewPipeline.layout[n]).stride <= 255

\* C15 (as claimed): the same for every buffer of the buffer layout array
C15_AnyBufferStride ==
    Creating =>
        /\ (\E b \in 0..(Len(NewLayouts) - 1) : BufferStride(b) > 255) => fatal
        /\ ~fatal => \A n \in EntrySlots : Unwrap(NewPipeline.layout[n]).stride <= 255

C15_Witness ==
    /\ Creating
    /\ fatal
    /\ IndicesOk
    /\ \A b \in 0..(Len(NewLayouts) - 1) : NewLayouts[b + 1].stride = 0
    /\ \E i \in 1..Len(NewAttributes) : BufferStride(NewAttributes[i].buffer_index) > 255

\* ---- apply_uniforms
Uploading == last.op = "apply_uniforms" /\ IsSome(cache.cur_pipeline)
BlobSize == last.args[1]
CurUniforms == shaders[pipelines[Unwrap(cache.cur_pipeline) + 1].shader + 1].uniforms
SlotBytes(k) == uniform_type_size(CurUniforms[k].uniform_type) * CurUniforms[k].array_count
RECURSIVE SchemaBytes(_)
SchemaBytes(k) == IF k = 0 THEN 0 ELSE SchemaBytes(k - 1) + SlotBytes(k)
RECURSIVE WordsBefore(_)
WordsBefore(k) ==
    IF k <= 1 THEN 0
    ELSE WordsBefore(k - 1)
         + (uniform_type_size(CurUniforms[k - 1].uniform_type) \div 4)
           * CurUniforms[k - 1].array_count
UploadSlots == {k \in 1..Len(CurUniforms) : IsSome(CurUniforms[k].gl_loc)}
UploadOf(k) ==
    [ f |-> uniform_call(CurUniforms[k].uniform_type),
      a |-> <<Unwrap(CurUniforms[k].gl_loc), CurUniforms[k].array_count, WordsBefore(k)>> ]
\* the byte just past the source range of the n-th upload
UploadEnd(n) ==
    LET t == CHOOSE u \in UniformType : uniform_call(u) = calls[n].f
    IN  4 * calls[n].a[3] + uniform_type_size(t) * calls[n].a[2]

\* C16: apply_uniforms fails fatally whenever the blob has fewer bytes than the schema
\* demands (the sum over the slots of type byte size times array count), and no upload
\* reads a source range that extends beyond the blob.
C16_BlobCoversSchema ==
    Uploading =>
        /\ (BlobSize < SchemaBytes(Len(CurUniforms)) => fatal)
        /\ \A n \in 1..Len(calls) : UploadEnd(n) <= BlobSize

\* C17: apply_uniforms walks the slots in declaration order; the upload of slot k reads
\* from the 4-byte-word offset that sums (type byte size / 4) * array count over the slots
\* before k and passes the array count of slot k; a slot without a location issues no
\* upload and no error and still advances the offset of the slots after it.
C17_UploadsInOrder ==
    Uploading =>
        /\ Len(calls) <= Cardinality(UploadSlots)
        /\ \A n \in 1..Len(calls) : calls[n] = UploadOf(Nth(UploadSlots, n))
        /\ (~fatal => Len(calls) = Cardinality(UploadSlots))

C17_Witness ==
    /\ Uploading
    /\ ~fatal
    /\ Len(CurUniforms) = 2
    /\ ~IsSome(CurUniforms[1].gl_loc)
    /\ Len(calls) = 1
    /\ calls[1].a[3] = 4

\* ---- draw
Drawn == last.op = "draw"
DrawStep == last'.op = "draw" /\ ~fatal
DrawCalls == {"glDrawElements", "glDrawElementsInstanced"}

\* C18: draw fails fatally and issues no driver call whenever no Pipeline is applied,
\* for every num_instances and either value of features.instancing.
C18_DrawNeedsPipeline ==
    (Drawn /\ ~IsSome(cache.cur_pipeline)) => (fatal /\ calls = << >>)

C18_Witness ==
    /\ Drawn
    /\ ~IsSome(cache.cur_pipeline)
    /\ ~features.instancing
    /\ last.args[3] = 2
    /\ fatal

\* C19: with features.instancing false and a Pipeline applied, a draw that requests more
\* than one instance issues no driver call, leaves the cache and the driver as they were
\* and returns normally, and a draw that requests exactly one instance with an index
\* element type bound issues one glDrawElements call and nothing else.
C19_InstancingGate ==
    [][ (DrawStep /\ ~features.instancing /\ IsSome(cache.cur_pipeline)) =>
          /\ (last'.args[3] > 1 =>
                calls' = << >> /\ cache' = cache /\ gl' = gl /\ ~fatal')
          /\ ((last'.args[3] = 1 /\ IsSome(cache.index_type)) =>
                /\ Len(calls') = 1
                /\ calls'[1].f = "glDrawElements"
                /\ cache' = cache
                /\ ~fatal') ]_vars

C19_Witness ==
    /\ Drawn
    /\ ~features.instancing
    /\ IsSome(cache.cur_pipeline)
    /\ IsSome(cache.index_type)
    /\ last.args[3] = 2
    /\ calls = << >>
    /\ ~fatal

\* C20: a draw(base_element, num_elements, num_instances) that follows a successful
\* apply_bindings and passes the instancing gate issues exactly one indexed draw call,
\* with element count num_elements, the index element type of the index buffer of the
\* Bindings, and a start offset in bytes of base_element times the width of that type.
C20_DrawCall ==
    [][ (DrawStep /\ last.op = "apply_bindings"
         /\ (features.instancing \/ last'.args[3] = 1)) =>
          LET index_type == Unwrap(last.args[1].index_buffer.index_type)
          IN  /\ Len(calls') = 1
              /\ calls'[1].f \in DrawCalls
              /\ calls'[1].a[2] = last'.args[2]
              /\ calls'[1].a[3] = gl_index_type(index_type)
              /\ calls'[1].a[4] = last'.args[1] * index_type_size(index_type)
              /\ ~fatal' ]_vars

C20_Witness ==
    /\ Drawn
    /\ last.args = <<2, 6, 1>>
    /\ cache.index_type = Some("Int")
    /\ calls = <<[f |-> "glDrawElements", a |-> <<"GL_TRIANGLES", 6, "GL_UNSIGNED_INT", 8>>]>>

\* ---- Buffer::update
Updated == last.op = "Buffer::update"
UpdateStep == last'.op = "Buffer::update" /\ ~fatal
\* the payload's byte size, and whether its element type is the one an index buffer holds
PayloadBytes(op) == op.args[2] * op.args[3]
PayloadTyped(op) ==
    buffers[op.args[1]].buffer_type = "IndexBuffer"
        => buffers[op.args[1]].index_type = for_type(op.args[2])

C22_NewPassKeepsFramebuffer ==
    [][ (last'.op = "RenderPass::new" /\ ~fatal) => gl'.framebuffer = gl.framebuffer ]_vars

\* ---- Shader::new
ShaderNewStep == last'.op = "Shader::new" /\ ~fatal
\* the first thing that goes wrong with the sources of a Shader::new, "Ok" when nothing does
FirstFailure(code) ==
    CASE code.vs.nul -> "FFINulError"
      [] ~code.vs.nul /\ ~code.vs.ok -> "CompilationError"
      [] ~code.vs.nul /\ code.vs.ok /\ code.fs.nul -> "FFINulError"
      [] ~code.vs.nul /\ code.vs.ok /\ ~code.fs.nul /\ ~code.fs.ok -> "CompilationError"
      [] OTHER -> IF code.link THEN "Ok" ELSE "LinkError"

\* C23 (as claimed): a Shader::new that fails on a compilation, on the link or on a NUL in
\* a source returns the error of that cause without failing fatally, adds no shader to the
\* arena and changes no cache field, so the handles issued before still resolve to the
\* same shaders and pipelines.
C23_FailedShaderNew ==
    [][ (ShaderNewStep /\ FirstFailure(last'.args[1]) # "Ok") =>
          /\ ~fatal'
          /\ last'.args[2] = FirstFailure(last'.args[1])
          /\ shaders' = shaders
          /\ pipelines' = pipelines
          /\ cache' = cache ]_vars

\* ---- ElapsedQuery
QueryReady == gl.timer.result = "ready"
ObservedAvailable ==
    IF last.op = "ElapsedQuery::is_available" THEN last.args[2] = TRUE ELSE FALSE

\* C24 (as claimed): once begin_query and end_query have bracketed a span and the driver
\* has completed the query, a caller that keeps polling is_available eventually observes
\* true, unless it begins the query anew first.
C24_PollObservesResult == QueryReady ~> (ObservedAvailable \/ ~QueryReady)

\* ---- the scratch slots
\* a further restore of a buffer target, after `buffer` has been bound since, leaves the
\* cached and the driver binding of the target on `buffer`
BufferSlotEmpty(target) ==
    \A buffer \in BufIds, index_type \in CallIndexTypes :
        LET m1 == bind_buffer(Cur, target, buffer, index_type)
            m2 == restore_buffer_binding(m1, target)
        IN  /\ CacheBinding(m2.cache, KindOf(target), 0) = buffer
            /\ GlBinding(m2.gl, KindOf(target), 0) = buffer

\* the same of the texture target, on the slot of the restore
TextureSlotEmpty(slot_index) ==
    \A texture \in TexIds :
        LET m1 == bind_texture(Cur, slot_index, texture)
            m2 == restore_texture_binding(m1, slot_index)
        IN  /\ m2.cache.textures[slot_index] = texture
            /\ m2.gl.textures[slot_index] = texture

\* C25 (as claimed): after a restore_X_binding the scratch slot of the target (vertex
\* buffer, index buffer, texture) is empty: a further restore with no store in between
\* changes neither the cached nor the driver binding, whatever has been bound since.
C25_RestoreEmptiesSlot ==
    /\ (last.op = "restore_buffer_binding" /\ ~fatal) => BufferSlotEmpty(last.args[1])
    /\ (last.op = "restore_texture_binding" /\ ~fatal) => TextureSlotEmpty(last.args[1])

IssuedFor(cs, f, slot) ==
    \E i \in 1..Len(cs) : IF cs[i].f = f THEN cs[i].a[1] = slot ELSE FALSE

AttributeCalls ==
    {"glVertexAttribPointer", "glVertexAttribDivisor", "glEnableVertexAttribArray",
     "glDisableVertexAttribArray"}

\* the cache, before the call, does not hold the slot's entry with the resolved buffer
StaleSlot(bindings, slot) ==
    LET a == Unwrap(ActiveEntry(slot))
    IN  \/ ~IsSome(cache.attributes[slot])
        \/ Unwrap(cache.attributes[slot]).attribute # a
        \/ Unwrap(cache.attributes[slot]).gl_vbuf # bindings.vertex_buffers[a.buffer_index + 1].gl_buf

\* the slots the call sets up anew, and the vertex buffer the last of them resolves to
StaleSlots(bindings) ==
    {slot \in 0..(MAX_VERTEX_ATTRIBUTES - 1) :
        IF IsSome(ActiveEntry(slot)) THEN StaleSlot(bindings, slot) ELSE FALSE}

LastStaleBuffer(bindings) ==
    LET slot == CHOOSE x \in StaleSlots(bindings) : \A y \in StaleSlots(bindings) : y <= x
    IN  bindings.vertex_buffers[Unwrap(ActiveEntry(slot)).buffer_index + 1].gl_buf

\* C27: in an apply_bindings that returns, a slot with an entry in the active pipeline's
\* table gets its attribute-pointer call and its enable call exactly when the cache held
\* no entry for the slot or held another layout or another buffer id, the vertex-buffer
\* binding ends at the buffer of the last such slot and is left alone when there is none,
\* and a second consecutive apply_bindings with the same pipeline and the same Bindings
\* issues no attribute-pointer, divisor, enable or disable call.
C27_AttributesCached ==
    [][ (last'.op = "apply_bindings" /\ ~fatal') =>
          LET bindings == last'.args[1]
          IN  /\ \A slot \in 0..(MAX_VERTEX_ATTRIBUTES - 1) :
                    IsSome(ActiveEntry(slot)) =>
                       /\ IssuedFor(calls', "glVertexAttribPointer", slot)
                             <=> StaleSlot(bindings, slot)
                       /\ IssuedFor(calls', "glEnableVertexAttribArray", slot)
                             <=> StaleSlot(bindings, slot)
                       /\ ~IssuedFor(calls', "glDisableVertexAttribArray", slot)
              /\ cache'.vertex_buffer = IF StaleSlots(bindings) = {}
                                        THEN cache.vertex_buffer
                                        ELSE LastStaleBuffer(bindings)
              /\ repeat' => \A i \in 1..Len(calls') : calls'[i].f \notin AttributeCalls
      ]_vars

C27_Witness ==
    /\ last.op = "apply_bindings"
    /\ repeat
    /\ ~fatal
    /\ IsSome(ActiveEntry(0))
    /\ IsSome(ActiveEntry(1))
    /\ IsSome(cache.attributes[1])
    /\ calls # << >>
    /\ \A i \in 1..Len(calls) : calls[i].f \notin AttributeCalls

\* ------------------------------------------------ claims on the table entries
\* the divisor the layout of the i-th attribute's buffer asks for
LayoutDivisor(i) ==
    LET layout == NewLayouts[NewAttributes[i].buffer_index + 1]
    IN  IF layout.step_func = "PerVertex" THEN 0 ELSE layout.step_rate

\* the k-th entry of the i-th attribute is in the table: resolved and not overwritten
Written(i, k) == Resolved(i) /\ k < EntryCount(i) /\ ~Overwritten(i, k)

\* C28: every entry of a created pipeline's table sits at the index equal to its attr_loc,
\* is the entry of an attribute that resolved to that location, carries that attribute's
\* buffer_index, and has divisor 0 when the buffer's step function is PerVertex and the
\* buffer's step_rate when it is PerInstance.
C28_EntryAtItsLocation ==
    Created =>
        /\ \A n \in EntrySlots :
              /\ Unwrap(NewPipeline.layout[n]).attr_loc = n - 1
              /\ \E i \in 1..Len(NewAttributes), k \in 0..3 :
                    Written(i, k) /\ AttrLocation(i) + k = n - 1
        /\ \A i \in 1..Len(NewAttributes), k \in 0..3 :
              Written(i, k) =>
                  /\ IsSome(EntryOf(i, k))
                  /\ Unwrap(EntryOf(i, k)).attr_loc = AttrLocation(i) + k
                  /\ Unwrap(EntryOf(i, k)).buffer_index = NewAttributes[i].buffer_index
                  /\ Unwrap(EntryOf(i, k)).divisor = LayoutDivisor(i)

C28_Witness ==
    /\ Created
    /\ Len(NewAttributes) = 2
    /\ NewAttributes[1].name = "pos" /\ NewAttributes[1].buffer_index = 0
    /\ NewAttributes[2].name = "inst" /\ NewAttributes[2].buffer_index = 1
    /\ NewAttributes[2].format = "Mat4"
    /\ NewLayouts[1].step_func = "PerVertex"
    /\ NewLayouts[2].step_func = "PerInstance"
    /\ Unwrap(EntryOf(1, 0)).divisor = 0
    /\ Unwrap(EntryOf(2, 3)).divisor = 2

\* ------------------------------------------------ claims on blending
\* the enable and disable calls for blending in a list of calls, read in order from a
\* driver whose blending is enabled or not, never enable what is enabled nor disable what
\* is disabled
RECURSIVE BlendAlternates(_, _, _)
BlendAlternates(cs, i, enabled) ==
    IF i > Len(cs)
    THEN TRUE
    ELSE IF cs[i].f = "glEnable" /\ cs[i].a = <<"GL_BLEND">>
    THEN ~enabled /\ BlendAlternates(cs, i + 1, TRUE)
    ELSE IF cs[i].f = "glDisable" /\ cs[i].a = <<"GL_BLEND">>
    THEN enabled /\ BlendAlternates(cs, i + 1, FALSE)
    ELSE BlendAlternates(cs, i + 1, enabled)

BlendEnabled(g) == "GL_BLEND" \in g.caps

\* C29: across set_blend and apply_pipeline calls the driver's blending is enabled exactly
\* when the cache holds a colour blend state, and the enable and disable calls for
\* blending alternate starting with an enable: none enables blending that is enabled or
\* disables blending that is not.
C29_BlendAlternates ==
    /\ [](BlendEnabled(gl) <=> IsSome(cache.color_blend))
    /\ [][ BlendAlternates(calls', 1, BlendEnabled(gl)) ]_vars

C29_Witness ==
    /\ last.op = "set_blend"
    /\ ~fatal
    /\ BlendEnabled(gl)
    /\ cache.color_blend # Some(SceneBlend)
    /\ "glBlendFunc" \in CallNames
    /\ "glEnable" \notin CallNames

\* C30: when end_render_pass returns, the driver's framebuffer binding is the default
\* framebuffer captured at context creation, the vertex buffer and the index buffer are
\* none in cache and driver and no index element type is cached; the texture bindings of
\* cache and driver, the cached attribute table and the current pipeline are as before.
C30_EndRenderPassResets ==
    [][ last'.op = "end_render_pass" =>
          /\ ~fatal'
          /\ gl'.framebuffer = default_framebuffer
          /\ cache'.vertex_buffer = 0 /\ gl'.array_buffer = 0
          /\ cache'.index_buffer = 0 /\ gl'.element_array_buffer = 0
          /\ cache'.index_type = None
          /\ cache'.textures = cache.textures
          /\ gl'.textures = gl.textures
          /\ cache'.attributes = cache.attributes
          /\ cache'.cur_pipeline = cache.cur_pipeline
      ]_vars

C30_Witness ==
    /\ last.op = "end_render_pass"
    /\ ~fatal
    /\ {c.f : c \in {calls[i] : i \in 1..Len(calls)}} = {"glBindFramebuffer", "glBindBuffer"}
    /\ Len(calls) = 3
    /\ IsSome(cache.cur_pipeline)
    /\ \E i \in 0..(MAX_SHADERSTAGE_IMAGES - 1) : cache.textures[i] # 0
    /\ \E slot \in 0..(MAX_VERTEX_ATTRIBUTES - 1) : IsSome(cache.attributes[slot])

\* ------------------------------------------------ claims on the scratch slots
\* C31: between the operations of the context the two buffer scratch slots are empty:
\* after every Buffer::immutable, Buffer::stream, Buffer::index_stream and Buffer::update,
\* returned or panicked, and after every other operation of the frame loop,
\* stored_vertex_buffer = 0 and stored_index_buffer = 0.
C31_ScratchSlotsEmpty ==
    /\ cache.stored_vertex_buffer = 0
    /\ cache.stored_index_buffer = 0

C31_Witness ==
    /\ last.op = "Buffer::update"
    /\ ~fatal
    /\ cache.vertex_buffer # 0
    /\ cache.index_buffer # 0
    /\ Len(calls) = 3
    /\ C31_ScratchSlotsEmpty

\* ------------------------------------------------ claims on the index binding
\* C32: apply_bindings leaves the index buffer B and the element type T of its Bindings
\* bound in cache and driver, and every buffer creation and update that follows, on either
\* target, an update of B itself included, leaves B and T in the cache and B in the
\* driver: a draw after them reads the index buffer and element type of the last
\* apply_bindings.
C32_IndexBindingSurvives ==
    /\ [][ (last'.op = "apply_bindings" /\ ~fatal') =>
             /\ last'.args[1].index_buffer.gl_buf # 0
             /\ cache'.index_buffer = last'.args[1].index_buffer.gl_buf
             /\ cache'.index_type = last'.args[1].index_buffer.index_type
             /\ gl'.element_array_buffer = last'.args[1].index_buffer.gl_buf ]_vars
    /\ [][ (last'.op \in BufferOps /\ ~fatal' /\ cache.index_buffer # 0) =>
             /\ cache'.index_buffer = cache.index_buffer
             /\ cache'.index_type = cache.index_type
             /\ gl'.element_array_buffer = gl.element_array_buffer ]_vars

C32_Witness ==
    /\ last.op = "Buffer::update"
    /\ ~fatal
    /\ buffers[last.args[1]].buffer_type = "IndexBuffer"
    /\ buffers[last.args[1]].gl_buf = cache.index_buffer
    /\ cache.index_type = buffers[last.args[1]].index_type
    /\ gl.element_array_buffer = cache.index_buffer

\* C33: end_render_pass and commit_frame leave no index element type cached, the buffer
\* creations and updates that follow leave it unset, and a draw that finds it unset issues
\* no draw call and, when it passes the instancing gate, fails fatally: no draw between
\* the end of a pass or frame and the next apply_bindings reaches the driver.
C33_DrawNeedsBindings ==
    /\ [][ last'.op \in {"end_render_pass", "commit_frame"} => cache'.index_type = None ]_vars
    /\ [][ (last'.op \in BufferOps /\ cache.index_type = None) =>
              cache'.index_type = None ]_vars
    /\ [][ (last'.op = "draw" /\ cache.index_type = None) =>
              /\ \A i \in 1..Len(calls') : calls'[i].f \notin DrawCalls
              /\ (features.instancing \/ last'.args[3] = 1) => fatal' ]_vars

\* ------------------------------------------------ claims on the active program
\* C34: whenever the cache records a current pipeline, the program the driver uses is the
\* program of that pipeline's shader.
C34_ProgramOfCurrentPipeline ==
    IsSome(cache.cur_pipeline) =>
        gl.program = shaders[pipelines[Unwrap(cache.cur_pipeline) + 1].shader + 1].program

\* ------------------------------------------------ claims on buffer destruction
\* the buffer ids the cache holds: the two bindings, the two scratch slots and the
\* buffer of every cached attribute entry
CachedBufferIds ==
    {cache.vertex_buffer, cache.index_buffer,
     cache.stored_vertex_buffer, cache.stored_index_buffer}
    \cup {Unwrap(cache.attributes[slot]).gl_vbuf :
             slot \in {x \in 0..(MAX_VERTEX_ATTRIBUTES - 1) : IsSome(cache.attributes[x])}}

\* C35: after a Buffer is destroyed no field of the cache holds its driver id, and the
\* cached vertex-buffer and index-buffer bindings equal the driver's.
C35_DestroyedIdForgotten ==
    last.op = "Buffer::drop" =>
        /\ last.args[1] \notin CachedBufferIds
        /\ cache.vertex_buffer = gl.array_buffer
        /\ cache.index_buffer = gl.element_array_buffer

\* ------------------------------------------------ claims on pipeline blending
\* C36: no pipeline of the arena has an alpha blend state without a colour blend state,
\* apply_pipeline never fails, and after apply_pipeline of a pipeline without colour blend
\* state the driver's blending is off.
C36_PipelineBlendWellFormed ==
    /\ \A p \in 1..Len(pipelines) :
          IsSome(pipelines[p].params.alpha_blend) => IsSome(pipelines[p].params.color_blend)
    /\ last.op = "apply_pipeline" =>
          /\ ~fatal
          /\ ~IsSome(pipelines[last.args[1] + 1].params.color_blend) => ~BlendEnabled(gl)

\* ------------------------------------------------ claims on the current pipeline
\* C37: once a pipeline is current the cache never returns to none: every operation
\* leaves some pipeline current, end_render_pass and commit_frame leave the current
\* pipeline and the cached attribute table as they were, and a draw with a current
\* pipeline never fails on the pipeline check: it fails only on an unset index type.
C37_PipelineStaysCurrent ==
    /\ [][ IsSome(cache.cur_pipeline) => IsSome(cache'.cur_pipeline) ]_vars
    /\ [][ last'.op \in {"end_render_pass", "commit_frame"} =>
              /\ cache'.cur_pipeline = cache.cur_pipeline
              /\ cache'.attributes = cache.attributes ]_vars
    /\ [][ (last'.op = "draw" /\ IsSome(cache.cur_pipeline) /\ fatal') =>
              cache.index_type = None ]_vars

C37_Witness ==
    /\ last.op = "commit_frame"
    /\ repeat
    /\ ~fatal
    /\ cache.cur_pipeline = Some(0)
    /\ IsSome(cache.attributes[0])
    /\ IsSome(cache.attributes[1])

\* ------------------------------------------------ claims on the uniform bound check
\* the word count the bound check subtracts for the k-th slot: type byte size / 4
SlotWords(k) == uniform_type_size(CurUniforms[k].uniform_type) \div 4

\* C38: the bound check of apply_uniforms never wraps around: a blob with fewer bytes than
\* the word count of the first slot is rejected, the call fails fatally and uploads
\* nothing, in every build.
C38_BoundCheckNeverWraps ==
    (/\ Uploading
     /\ CurUniforms # << >>
     /\ IF CurUniforms # << >> THEN BlobSize < SlotWords(1) ELSE FALSE)
    => (fatal /\ calls = << >>)

\* ------------------------------------------------ claims on the texture slots
\* the texture units apply_bindings selected in its last call
SelectedUnits == {calls[i].a[1] : i \in {j \in 1..Len(calls) : calls[j].f = "glActiveTexture"}}

\* C39: every texture slot index that apply_bindings passes to bind_texture is below
\* MAX_SHADERSTAGE_IMAGES, and with at least as many images in the Bindings as the shader
\* names the call does not fail: the texture table of the cache is never indexed out of
\* range.
C39_TextureSlotInRange ==
    last.op = "apply_bindings" =>
        /\ \A unit \in SelectedUnits : unit < MAX_SHADERSTAGE_IMAGES
        /\ (IF IsSome(cache.cur_pipeline)
            THEN Len(last.args[1].images) >=
                     Len(shaders[pipelines[Unwrap(cache.cur_pipeline) + 1].shader + 1].images)
            ELSE FALSE) => ~fatal

====
